---- MODULE Spec2Model ----
(***************************************************************************)
(* A model of the PDF2Foundry extraction engine: the block locators and    *)
(* block parsers of the per-category extractors, the creature scan of the  *)
(* unified processor, the two dispatchers that run the categories, and    *)
(* the loop of an extract method over the blocks of its category.          *)
(*                                                                         *)
(* Text is a sequence of one-character strings.  Offsets are JavaScript    *)
(* offsets (0-based); At(t, i) is the character at offset i.               *)
(***************************************************************************)
EXTENDS Integers, Sequences, FiniteSets, TLC

VARIABLES
    text,        \* locator: the extracted text being scanned
    locator,     \* locator: which block locator runs
    profile,     \* locator: the system profile of the creature scan
    lastIndex,   \* locator: offset at which the next start match is searched
    blocks,      \* locator: spans [start, end) of the blocks emitted so far
    locPc,       \* locator: "scan" while the loop runs, "done" after it
    parseInput,  \* parser: the block text given to the parser
    parser,      \* parser: which block parser runs
    parsed,      \* parser: what it returned, <<>> (null) or <<record>>
    parsePc,     \* parser: "input" before the call, "done" after it
    pdfDoc,      \* process: the pages of the loaded document
    systemId,    \* process: the system id given to the constructor
    contentTypes, \* process: this.contentTypes
    pageRange,   \* process: this.pageRange, <<>> (null) or <<[start, end]>>
    useOCR,      \* process: this.useOCR
    ocrEnabled,  \* process: ocrHandler.ocrEnabled
    ocrWorker,   \* process: whether ocrHandler.ocrWorker is set
    runText,     \* process: <<>> until the text is obtained, then <<text>>
    results,     \* process: this.results
    warnings,    \* process: the content types warned about as unsupported
    nextType,    \* process: index of the content type the loop is at
    failedType,  \* process: <<>>, or <<the content type whose pass threw>>
    runPc,       \* process: "start", "loop", "returned" or "thrown"
    appPdfDoc,   \* app: the pages of the chosen file
    pageRangeStr, \* app: the page range field as submitted
    appPageRange, \* app: pageRange of _onSubmit
    appContentTypes, \* app: contentTypes of _onSubmit
    promises,    \* app: state of each extraction promise of _processPDF
    appResults,  \* app: this.results
    imported,    \* app: the records _createCompendiums put in each folder
    packs,       \* app: the entries _createCompendiumsFromFolders imported into each pack
    notification, \* app: the last ui.notifications message shown
    submissions, \* app: the number of times the form was submitted
    appPc,       \* app: "form", "extracting", "success" or "error"
    extractor,   \* extractor: the category whose extract method runs
    extBlocks,   \* extractor: the blocks its locator returned
    extNext,     \* extractor: index of the block the for loop is at
    saveCalls,   \* extractor: the data of each saveJSON call, in call order
    extResults,  \* extractor: the results array
    extPc,       \* extractor: "start", "loop", "saving", "returned" or "thrown"
    previous,    \* locator: <<>>, or <<the blocks of the pass before this one>>
    serverFile,  \* server: the file whose socket handler is registered
    request,     \* server: <<>>, or <<the request being served>>
    handler,     \* server: the handler the request was given to, or "none"
    fsCalls,     \* server: the FilePicker, fetch and backend calls made for it
    response,    \* server: <<>>, or <<what the handler returned>>
    srvPc        \* server: "idle", an await of a handler, or "responded"

locVars == <<text, locator, profile, lastIndex, blocks, locPc>>

parseVars == <<parseInput, parser, parsed, parsePc>>

runVars == <<pdfDoc, systemId, contentTypes, pageRange, useOCR, ocrEnabled, ocrWorker,
             runText, results, warnings, nextType, failedType, runPc>>

appVars == <<appPdfDoc, pageRangeStr, appPageRange, appContentTypes, promises,
             appResults, imported, packs, notification, submissions, appPc>>

extVars == <<extractor, extBlocks, extNext, saveCalls, extResults, extPc>>

srvVars == <<serverFile, request, handler, fsCalls, response, srvPc>>

vars == <<locVars, parseVars, runVars, appVars, extVars, previous, srvVars>>

\* the variables of the components other than the locators
notLocVars == <<parseVars, runVars, appVars, extVars, previous, srvVars>>

\* the variables of the components other than the parsers
notParseVars == <<locVars, runVars, appVars, extVars, previous, srvVars>>

\* the variables of the components other than the unified processor
notRunVars == <<locVars, parseVars, appVars, extVars, previous, srvVars>>

\* the variables of the components other than the application
notAppVars == <<locVars, parseVars, runVars, extVars, previous, srvVars>>

\* the variables of the components other than the extract method
notExtVars == <<locVars, parseVars, runVars, appVars, previous, srvVars>>

\* the variables of the components other than the server API
notSrvVars == <<locVars, parseVars, runVars, appVars, extVars, previous>>

(***************************************************************************)
(* Characters and character classes of the JavaScript regex dialect.       *)
(***************************************************************************)
NL == "\n"

Digits == {"0", "1", "2", "3", "4", "5", "6", "7", "8", "9"}

Upper == {"A", "B", "C", "D", "E", "F", "G", "H", "I", "J", "K", "L", "M",
          "N", "O", "P", "Q", "R", "S", "T", "U", "V", "W", "X", "Y", "Z"}

Lower == {"a", "b", "c", "d", "e", "f", "g", "h", "i", "j", "k", "l", "m",
          "n", "o", "p", "q", "r", "s", "t", "u", "v", "w", "x", "y", "z"}

\* \w
WordChars == Upper \cup Lower \cup Digits \cup {"_"}

\* \s
SpaceChars == {" ", "\n", "\t", "\r"}

\* [\w\s]
WordSpace == WordChars \cup SpaceChars

\* [\w\s,]
WordSpaceComma == WordSpace \cup {","}

\* the characters ^ and $ treat as line breaks under the m flag
LineTerminators == {"\n", "\r"}

Min(S) == CHOOSE x \in S : \A y \in S : x <= y

Max(S) == CHOOSE x \in S : \A y \in S : x >= y

At(t, i) == t[i + 1]

\* t.substring(from, to) for 0 <= from <= to; to is clamped to the length
Substring(t, from, to) ==
    LET hi == IF to > Len(t) THEN Len(t) ELSE to
    IN  SubSeq(t, from + 1, hi)

\* the literal lit occurs in t at offset i
MatchesAt(t, i, lit) ==
    /\ i >= 0
    /\ i + Len(lit) <= Len(t)
    /\ \A k \in 1..Len(lit) : t[i + k] = lit[k]

\* t.indexOf(lit, from): offset of the first occurrence at or after from, or -1
IndexOf(t, lit, from) ==
    LET S == {i \in from..Len(t) : MatchesAt(t, i, lit)}
    IN  IF S = {} THEN -1 ELSE Min(S)

\* the offset just after the longest run of characters of class C starting at j
RunEnd(t, j, C) ==
    Min({k \in j..Len(t) : k = Len(t) \/ At(t, k) \notin C})

NoMatch == [index |-> -1, end |-> -1]

(***************************************************************************)
(* Block locators of the per-category extractors.  Each scans the text     *)
(* with a global regex; the loop resumes at the regex's lastIndex, that    *)
(* is, just after the previous start MATCH.                                *)
(***************************************************************************)
TraitPrefix == <<"T", "r", "a", "i", "t", ":", " ">>

FeatPrefix == <<"F", "e", "a", "t", ":", " ">>

PrerequisiteLine == <<"\n", "P", "r", "e", "r", "e", "q", "u", "i", "s", "i", "t", "e", ":", " ">>

TableSuffix == <<" ", "T", "a", "b", "l", "e", "\n">>

RacialTraitsLine == <<"\n", "R", "a", "c", "i", "a", "l", " ", "T", "r", "a", "i", "t", "s">>

DoubleNewline == <<"\n", "\n">>

\* /(\w[\w\s]+)\nRacial Traits/g at offset i: the end offset of the match, or -1
RaceMatchAt(t, i) ==
    IF ~(i < Len(t) /\ At(t, i) \in WordChars) THEN -1
    ELSE LET k == RunEnd(t, i + 1, WordSpace)
             E == {e \in (i + 2)..k : MatchesAt(t, e, RacialTraitsLine)}
         IN  IF E = {} THEN -1 ELSE Max(E) + Len(RacialTraitsLine)

\* /Trait: ([\w\s]+)\n/g at offset i
TraitMatchAt(t, i) ==
    IF ~MatchesAt(t, i, TraitPrefix) THEN -1
    ELSE LET j == i + Len(TraitPrefix)
             k == RunEnd(t, j, WordSpace)
             E == {e \in (j + 1)..(k - 1) : At(t, e) = NL}
         IN  IF E = {} THEN -1 ELSE Max(E) + 1

\* /Feat: ([\w\s]+)\nPrerequisite: ([\w\s,]+)/g at offset i
FeatMatchAt(t, i) ==
    IF ~MatchesAt(t, i, FeatPrefix) THEN -1
    ELSE LET j == i + Len(FeatPrefix)
             k == RunEnd(t, j, WordSpace)
             E == {e \in (j + 1)..k :
                      /\ MatchesAt(t, e, PrerequisiteLine)
                      /\ e + Len(PrerequisiteLine) < Len(t)
                      /\ At(t, e + Len(PrerequisiteLine)) \in WordSpaceComma}
         IN  IF E = {} THEN -1
             ELSE RunEnd(t, Max(E) + Len(PrerequisiteLine), WordSpaceComma)

\* (d\d+|\d+d\d+) at offset p: the end offset, or -1
DieMatchEnd(t, p) ==
    IF p >= Len(t) THEN -1
    ELSE IF At(t, p) = "d" /\ p + 1 < Len(t) /\ At(t, p + 1) \in Digits
         THEN RunEnd(t, p + 1, Digits)
    ELSE LET q == RunEnd(t, p, Digits)
         IN  IF q > p /\ q + 1 < Len(t) /\ At(t, q) = "d" /\ At(t, q + 1) \in Digits
             THEN RunEnd(t, q + 1, Digits)
             ELSE -1

\* /(\w[\w\s]+) Table\n(d\d+|\d+d\d+)/g at offset i
RollTableMatchAt(t, i) ==
    IF ~(i < Len(t) /\ At(t, i) \in WordChars) THEN -1
    ELSE LET k == RunEnd(t, i + 1, WordSpace)
             E == {e \in (i + 2)..k :
                      /\ MatchesAt(t, e, TableSuffix)
                      /\ DieMatchEnd(t, e + Len(TableSuffix)) # -1}
         IN  IF E = {} THEN -1 ELSE DieMatchEnd(t, Max(E) + Len(TableSuffix))

\* /(\w[\w\s]+)\n(\w+) (\w+), (\w+)\n.*?AC (\d+).*?HP (\d+).*?Speed (\d+) ft/gs
\* at offset i: the end offset of the match, or -1
MonsterMatchAt(t, i) ==
    IF ~(i < Len(t) /\ At(t, i) \in WordChars) THEN -1
    ELSE LET First(S) == IF S = {} THEN -1 ELSE Min(S)
             \* (\w+) at offset p: the end offset, or -1
             WordEnd(p) ==
                 IF p # -1 /\ p < Len(t) /\ At(t, p) \in WordChars
                 THEN RunEnd(t, p, WordChars) ELSE -1
             \* the literal lit at offset p: the end offset, or -1
             LitEnd(p, lit) == IF MatchesAt(t, p, lit) THEN p + Len(lit) ELSE -1
             \* \n(\w+) (\w+), (\w+)\n at offset e
             TypeLineEnd(e) ==
                 LitEnd(WordEnd(LitEnd(WordEnd(LitEnd(WordEnd(LitEnd(e, <<NL>>)),
                     <<" ">>)), <<",", " ">>)), <<NL>>)
             \* .*?<lit>(\d+) at offset p, the dot matching line breaks too
             NumberEnd(p, lit) ==
                 IF p = -1 THEN -1
                 ELSE First({RunEnd(t, a + Len(lit), Digits) :
                                a \in {b \in p..Len(t) :
                                          /\ MatchesAt(t, b, lit)
                                          /\ b + Len(lit) < Len(t)
                                          /\ At(t, b + Len(lit)) \in Digits}})
             \* .*?AC (\d+).*?HP (\d+).*?Speed (\d+) ft at offset p
             StatsEnd(p) ==
                 LET q == NumberEnd(NumberEnd(p, <<"A", "C", " ">>), <<"H", "P", " ">>)
                     speed == <<"S", "p", "e", "e", "d", " ">>
                 IN  IF q = -1 THEN -1
                     ELSE First({LitEnd(RunEnd(t, a + Len(speed), Digits), <<" ", "f", "t">>) :
                                    a \in {b \in q..Len(t) :
                                              /\ MatchesAt(t, b, speed)
                                              /\ b + Len(speed) < Len(t)
                                              /\ At(t, b + Len(speed)) \in Digits
                                              /\ MatchesAt(t, RunEnd(t, b + Len(speed), Digits),
                                                           <<" ", "f", "t">>)}})
             k == RunEnd(t, i + 1, WordSpace)
             E == {e \in (i + 2)..k : StatsEnd(TypeLineEnd(e)) # -1}
         IN  IF E = {} THEN -1 ELSE StatsEnd(TypeLineEnd(Max(E)))

RegexLocators == {"monsters", "races", "traits", "feats", "rolltables"}

\* the locator's start pattern at offset i: the end offset of the match, or -1
StartMatchAt(loc, t, i) ==
    CASE loc = "monsters"   -> MonsterMatchAt(t, i)
      [] loc = "races"      -> RaceMatchAt(t, i)
      [] loc = "traits"     -> TraitMatchAt(t, i)
      [] loc = "feats"      -> FeatMatchAt(t, i)
      [] loc = "rolltables" -> RollTableMatchAt(t, i)

\* pattern.exec(text) with the regex's lastIndex at from: the leftmost match
StartMatch(loc, t, from) ==
    LET S == {i \in from..Len(t) : StartMatchAt(loc, t, i) # -1}
    IN  IF S = {} THEN NoMatch
        ELSE [index |-> Min(S), end |-> StartMatchAt(loc, t, Min(S))]

\* the offset added to startPos before the end delimiter is searched
MinBody(loc) ==
    CASE loc = "monsters"   -> 100
      [] loc = "races"      -> 100
      [] loc = "traits"     -> 50
      [] loc = "feats"      -> 100
      [] loc = "rolltables" -> 200

\* the block length used when no end delimiter is found
MaxSpan(loc) ==
    CASE loc = "monsters"   -> 1000
      [] loc = "races"      -> 2000
      [] loc = "traits"     -> 500
      [] loc = "feats"      -> 1000
      [] loc = "rolltables" -> 1500

EndDelimiter(loc) == IF loc = "races" THEN <<"\n", "\n", "\n">> ELSE DoubleNewline

\* endPos of the block that starts at startPos
BlockEndPos(loc, t, startPos) ==
    LET found == IndexOf(t, EndDelimiter(loc), startPos + MinBody(loc))
    IN  IF found = -1 THEN startPos + MaxSpan(loc) ELSE found

\* the span of text.substring(startPos, endPos)
Span(t, startPos, endPos) ==
    [start |-> startPos, end |-> IF endPos > Len(t) THEN Len(t) ELSE endPos]

BlockText(t, b) == Substring(t, b.start, b.end)

\* one iteration of the while loop of _findMonsterBlocks, _findRaceBlocks,
\* _findTraitBlocks, _findFeatBlocks or _findRollTableBlocks that finds a
\* start match
FindBlock ==
    /\ locPc = "scan"
    /\ locator \in RegexLocators
    /\ LET m == StartMatch(locator, text, lastIndex)
       IN  /\ m # NoMatch
           /\ blocks' = Append(blocks,
                  Span(text, m.index, BlockEndPos(locator, text, m.index)))
           /\ lastIndex' = m.end
    /\ UNCHANGED <<text, locator, profile, locPc>>
    /\ UNCHANGED notLocVars

\* the exec that finds no further match ends the loop; the blocks are returned
FindBlocksReturn ==
    /\ locPc = "scan"
    /\ locator \in RegexLocators
    /\ StartMatch(locator, text, lastIndex) = NoMatch
    /\ locPc' = "done"
    /\ lastIndex' = 0
    /\ UNCHANGED <<text, locator, profile, blocks>>
    /\ UNCHANGED notLocVars

(***************************************************************************)
(* The creature scan of UnifiedPDFProcessor._extractCreatures.  The name   *)
(* pattern is not global: every iteration runs it on text.slice(lastIndex) *)
(* so ^ also matches at offset lastIndex.                                  *)
(***************************************************************************)

AbilityNames == << <<"S", "T", "R">>, <<"D", "E", "X">>, <<"C", "O", "N">>,
                   <<"I", "N", "T">>, <<"W", "I", "S">>, <<"C", "H", "A">> >>

ArmorClassLit == <<"A", "r", "m", "o", "r", " ", "C", "l", "a", "s", "s">>

HitPointsLit == <<"H", "i", "t", " ", "P", "o", "i", "n", "t", "s">>

ActionsLit == <<"A", "c", "t", "i", "o", "n", "s">>

\* ^ under the m flag, in the slice that starts at offset base
LineStart(t, base, i) == i = base \/ At(t, i - 1) \in LineTerminators

\* $ under the m flag
LineEnd(t, e) == e = Len(t) \/ At(t, e) \in LineTerminators

\* str.trim() of a string that starts with a non-space character
TrimEnd(g) == SubSeq(g, 1, Max({n \in 1..Len(g) : g[n] \notin SpaceChars}))

\* namePattern /^([A-Z][\w\s]+)$/m at offset i of the slice from base:
\* the end offset of the match, or -1
NameMatchAt(t, base, i) ==
    IF ~(i < Len(t) /\ LineStart(t, base, i) /\ At(t, i) \in Upper) THEN -1
    ELSE LET k == RunEnd(t, i + 1, WordSpace)
             E == {e \in (i + 2)..k : LineEnd(t, e)}
         IN  IF E = {} THEN -1 ELSE Max(E)

\* namePattern.exec(text.slice(base)), offsets those of the whole text
NameMatch(t, base) ==
    LET S == {i \in base..Len(t) : NameMatchAt(t, base, i) # -1}
    IN  IF S = {} THEN NoMatch
        ELSE [index |-> Min(S), end |-> NameMatchAt(t, base, Min(S))]

\* ' Creature ' without its leading white space
CreatureSpaceLit == <<"C", "r", "e", "a", "t", "u", "r", "e", " ">>

\* the name pattern of pf2e, /^([A-Z][\w\s]+)\s+Creature (\d+)/m, at offset
\* i of the slice from base: the end offset of its first group, the longest
\* run that white space, 'Creature ' and a digit follow, or -1
Pf2eNameMatchAt(t, base, i) ==
    IF ~(i < Len(t) /\ LineStart(t, base, i) /\ At(t, i) \in Upper) THEN -1
    ELSE LET k == RunEnd(t, i + 1, WordSpace)
             E == {e \in (i + 2)..k :
                      LET r == RunEnd(t, e, SpaceChars)
                      IN  /\ r > e
                          /\ MatchesAt(t, r, CreatureSpaceLit)
                          /\ r + Len(CreatureSpaceLit) < Len(t)
                          /\ At(t, r + Len(CreatureSpaceLit)) \in Digits}
         IN  IF E = {} THEN -1 ELSE Max(E)

\* patterns.namePattern.exec(text.slice(base)) for the profile: the offset
\* of the leftmost match and the end offset of its first group
ProfileNameMatch(prof, t, base) ==
    IF prof = "pf2e"
    THEN LET S == {i \in base..Len(t) : Pf2eNameMatchAt(t, base, i) # -1}
         IN  IF S = {} THEN NoMatch
             ELSE [index |-> Min(S), end |-> Pf2eNameMatchAt(t, base, Min(S))]
    ELSE NameMatch(t, base)

RECURSIVE WordsEnd(_, _, _)
\* ws[1] \s+ ws[2] \s+ ... at offset p: the end offset, or -1
WordsEnd(t, p, ws) ==
    IF ~MatchesAt(t, p, ws[1]) THEN -1
    ELSE LET q == p + Len(ws[1])
             r == RunEnd(t, q, SpaceChars)
         IN  IF Len(ws) = 1 THEN q
             ELSE IF r = q THEN -1
             ELSE WordsEnd(t, r, Tail(ws))

\* statBlockStart matches at offset p of the slice from base
\*   generic: /^(STR|DEX|CON|INT|WIS|CHA|Armor Class|Hit Points|Speed)/m
\*   dnd5e, pf2e: /^STR\s+DEX\s+CON\s+INT\s+WIS\s+CHA$/m
StatBlockStartAt(prof, t, base, p) ==
    /\ LineStart(t, base, p)
    /\ IF prof \in {"dnd5e", "pf2e"}
       THEN WordsEnd(t, p, AbilityNames) # -1 /\ LineEnd(t, WordsEnd(t, p, AbilityNames))
       ELSE \/ \E n \in 1..Len(AbilityNames) : MatchesAt(t, p, AbilityNames[n])
            \/ MatchesAt(t, p, ArmorClassLit)
            \/ MatchesAt(t, p, HitPointsLit)
            \/ MatchesAt(t, p, <<"S", "p", "e", "e", "d">>)

\* statBlockEnd matches at offset p of the slice from base
\*   generic: /(Actions|Legendary Actions|Lair Actions)/m
\*   dnd5e, pf2e: /^Actions/m
StatBlockEndAt(prof, t, base, p) ==
    IF prof \in {"dnd5e", "pf2e"}
    THEN LineStart(t, base, p) /\ MatchesAt(t, p, ActionsLit)
    ELSE \/ MatchesAt(t, p, ActionsLit)
         \/ MatchesAt(t, p, <<"L", "e", "g", "e", "n", "d", "a", "r", "y", " ", "A", "c", "t", "i", "o", "n", "s">>)
         \/ MatchesAt(t, p, <<"L", "a", "i", "r", " ", "A", "c", "t", "i", "o", "n", "s">>)

\* statBlockStart.exec(text.slice(base)): offset of the leftmost match, or -1
StatBlockStart(prof, t, base) ==
    LET S == {p \in base..Len(t) : StatBlockStartAt(prof, t, base, p)}
    IN  IF S = {} THEN -1 ELSE Min(S)

\* statBlockEnd.exec(text.slice(base)): offset of the leftmost match, or -1
StatBlockEnd(prof, t, base) ==
    LET S == {p \in base..Len(t) : StatBlockEndAt(prof, t, base, p)}
    IN  IF S = {} THEN -1 ELSE Min(S)

\* the block length used when statBlockEnd does not match
CreatureMaxSpan == 1000

\* an iteration that resumes the scan at the name, not after it
CreatureIterationAtName(prof, t, m) ==
    LET namePos == m.index
        name == TrimEnd(SubSeq(t, m.index + 1, m.end))
        afterName == namePos + Len(name)
        statBlockPos == StatBlockStart(prof, t, afterName)
        endIdx == StatBlockEnd(prof, t, statBlockPos)
        endPos == IF endIdx # -1 THEN endIdx ELSE statBlockPos + CreatureMaxSpan
    IN  [name |-> name,
         hasBlock |-> statBlockPos # -1,
         span |-> IF statBlockPos # -1 THEN Span(t, namePos, endPos)
                  ELSE Span(t, namePos, namePos),
         lastIndex |-> namePos]

\* what one iteration of the scan computes from the name match m
CreatureIteration(prof, t, m) ==
    LET namePos == m.index
        name == TrimEnd(SubSeq(t, m.index + 1, m.end))
        afterName == namePos + Len(name)
        statBlockPos == StatBlockStart(prof, t, afterName)
        endIdx == StatBlockEnd(prof, t, statBlockPos)
        endPos == IF endIdx # -1 THEN endIdx ELSE statBlockPos + CreatureMaxSpan
    IN  [name |-> name,
         hasBlock |-> statBlockPos # -1,
         span |-> IF statBlockPos # -1 THEN Span(t, namePos, endPos)
                  ELSE Span(t, namePos, namePos),
         lastIndex |-> afterName]

\* one iteration of the while loop of _extractCreatures
ScanCreature ==
    /\ locPc = "scan"
    /\ locator = "creatures"
    /\ LET m == ProfileNameMatch(profile, text, lastIndex)
       IN  /\ m # NoMatch
           /\ LET it == CreatureIteration(profile, text, m)
              IN  /\ blocks' = IF it.hasBlock THEN Append(blocks, it.span) ELSE blocks
                  /\ lastIndex' = it.lastIndex
    /\ UNCHANGED <<text, locator, profile, locPc>>
    /\ UNCHANGED notLocVars

\* the name pattern finds nothing in the rest of the text: the scan returns
ScanCreaturesReturn ==
    /\ locPc = "scan"
    /\ locator = "creatures"
    /\ ProfileNameMatch(profile, text, lastIndex) = NoMatch
    /\ locPc' = "done"
    /\ UNCHANGED <<text, locator, profile, lastIndex, blocks>>
    /\ UNCHANGED notLocVars

(***************************************************************************)
(* The texts a locator is run on: every concatenation of at most MaxPieces *)
(* pieces.  The pieces of a locator are a start line of its category, a    *)
(* filler of full stops (outside [\w\s]) as long as the locator's minimum  *)
(* body, a line break and a one-letter word.                               *)
(***************************************************************************)
MaxPieces == 4

Filler(n) == [k \in 1..n |-> "."]

StartPiece(loc) ==
    CASE loc = "monsters"   -> <<"O", "g", "r", "e", "\n", "L", "a", "r", "g", "e", " ", "g", "i", "a", "n", "t", ",", " ", "e", "v", "i", "l", "\n", "A", "C", " ", "1", "1", " ", "H", "P", " ", "5", "9", " ", "S", "p", "e", "e", "d", " ", "4", "0", " ", "f", "t">>
      [] loc = "races"      -> <<"E", "l", "f", "\n", "R", "a", "c", "i", "a", "l", " ", "T", "r", "a", "i", "t", "s">>
      [] loc = "traits"     -> <<"T", "r", "a", "i", "t", ":", " ", "A", "\n">>
      [] loc = "feats"      -> <<"F", "e", "a", "t", ":", " ", "A", "\n", "P", "r", "e", "r", "e", "q", "u", "i", "s", "i", "t", "e", ":", " ", "b", ",", " ", "c">>
      [] loc = "rolltables" -> <<"L", "o", "o", "t", " ", "T", "a", "b", "l", "e", "\n", "d", "6">>

CreaturePieces ==
    { <<"G", "o", "b", "l", "i", "n", "\n">>,
      <<"A", "r", "m", "o", "r", " ", "C", "l", "a", "s", "s", " ", "1", "5", " ", "(", "x", ")", "\n">>,
      <<"S", "T", "R", " ", "D", "E", "X", " ", "C", "O", "N", " ", "I", "N", "T", " ", "W", "I", "S", " ", "C", "H", "A", "\n">>,
      <<"A", "c", "t", "i", "o", "n", "s", "\n">>,
      <<"(", "a", ")", "\n">> }

\* the pieces of the texts scanned with the pf2e profile
Pf2ePieces ==
    { <<"O", "r", "c", " ", "C", "r", "e", "a", "t", "u", "r", "e", " ", "1", "\n">>,
      <<"O", "r", "c", " ", " ", "C", "r", "e", "a", "t", "u", "r", "e", " ", "2", "\n">>,
      <<"S", "T", "R", " ", "D", "E", "X", " ", "C", "O", "N", " ", "I", "N", "T", " ", "W", "I", "S", " ", "C", "H", "A", "\n">>,
      <<"A", "c", "t", "i", "o", "n", "s", "\n">>,
      <<"(", "a", ")", "\n">> }

Pieces(loc) ==
    IF loc = "creatures" THEN CreaturePieces
    ELSE {StartPiece(loc), Filler(MinBody(loc)), <<"\n">>, <<"y">>}

RECURSIVE Flatten(_)
Flatten(ss) == IF ss = <<>> THEN <<>> ELSE Head(ss) \o Flatten(Tail(ss))

Texts(loc) ==
    {Flatten(ss) : ss \in UNION {[1..n -> Pieces(loc)] : n \in 0..MaxPieces}}

Pf2eTexts ==
    {Flatten(ss) : ss \in UNION {[1..n -> Pf2ePieces] : n \in 0..MaxPieces}}

\* the content types requested of the unified processor
RunContentTypes == {"monsters", "spells", "items", "bogus"}

\* the content types ticked in the form
AppContentTypes == {"monsters", "races", "traits", "feats", "rolltables"}

\* no unified processor is modelled
RunIdle ==
    /\ pdfDoc = <<>>
    /\ systemId = "none"
    /\ contentTypes = <<>>
    /\ pageRange = <<>>
    /\ useOCR = FALSE
    /\ ocrEnabled = FALSE
    /\ ocrWorker = FALSE
    /\ runText = <<>>
    /\ results = [c \in RunContentTypes |-> <<>>]
    /\ warnings = {}
    /\ nextType = 1
    /\ failedType = <<>>
    /\ runPc = "idle"

\* the entity types of the compendium packs
PackTypes == {"Actor", "Item", "JournalEntry", "RollTable"}

\* no application is modelled
AppIdle ==
    /\ appPdfDoc = <<>>
    /\ pageRangeStr = <<>>
    /\ appPageRange = <<>>
    /\ appContentTypes = {}
    /\ promises = [c \in AppContentTypes |-> "none"]
    /\ appResults = [c \in AppContentTypes |-> <<>>]
    /\ imported = [c \in AppContentTypes |-> <<>>]
    /\ packs = [p \in PackTypes |-> <<>>]
    /\ notification = "none"
    /\ submissions = 0
    /\ appPc = "idle"

\* no parser call is modelled
\* no request to the server API is modelled
ServerIdle ==
    /\ serverFile = "server-api.js"
    /\ request = <<>>
    /\ handler = "none"
    /\ fsCalls = <<>>
    /\ response = <<>>
    /\ srvPc = "idle"

\* no extract method is modelled
ExtractIdle ==
    /\ extractor = "none"
    /\ extBlocks = <<>>
    /\ extNext = 1
    /\ saveCalls = <<>>
    /\ extResults = <<>>
    /\ extPc = "idle"

ParseIdle ==
    /\ parseInput = <<>>
    /\ parser = "none"
    /\ parsed = <<>>
    /\ parsePc = "idle"

InitLocate ==
    /\ previous = <<>>
    /\ ServerIdle
    /\ ParseIdle
    /\ RunIdle
    /\ AppIdle
    /\ ExtractIdle
    /\ locator \in RegexLocators \cup {"creatures"}
    /\ profile \in IF locator = "creatures" THEN {"generic", "dnd5e", "pf2e"} ELSE {"generic"}
    /\ text \in IF profile = "pf2e" THEN Pf2eTexts ELSE Texts(locator)
    /\ lastIndex = 0
    /\ blocks = <<>>
    /\ locPc = "scan"

\* a regex whose lastIndex a call finds as the call before left it
StaleLastIndex == lastIndex

\* lastIndex when a locator is entered: every call evaluates its regex
\* literal anew (const pattern = /.../g), and the creature scan declares
\* let lastIndex = 0
FreshLastIndex == 0

\* the locator is called once more on the same text, with the same profile
FindBlocksAgain ==
    /\ locPc = "done"
    /\ previous = <<>>
    /\ previous' = <<blocks>>
    /\ blocks' = <<>>
    /\ lastIndex' = FreshLastIndex
    /\ locPc' = "scan"
    /\ UNCHANGED <<text, locator, profile>>
    /\ UNCHANGED <<parseVars, runVars, appVars, extVars, srvVars>>

NextLocate ==
    \/ FindBlock
    \/ FindBlocksReturn
    \/ ScanCreature
    \/ ScanCreaturesReturn
    \/ FindBlocksAgain

SpecLocate == InitLocate /\ [][NextLocate]_vars

(***************************************************************************)
(* String operations the block parsers use.                                *)
(***************************************************************************)
RECURSIVE Split(_)
\* str.split('\n')
Split(t) ==
    LET S == {i \in 1..Len(t) : t[i] = NL}
    IN  IF S = {} THEN <<t>>
        ELSE <<SubSeq(t, 1, Min(S) - 1)>> \o Split(SubSeq(t, Min(S) + 1, Len(t)))

RECURSIVE Join(_)
\* lines.join('\n')
Join(ls) ==
    IF ls = <<>> THEN <<>>
    ELSE IF Len(ls) = 1 THEN ls[1]
    ELSE ls[1] \o <<NL>> \o Join(Tail(ls))

\* str.trim()
Trim(t) ==
    LET S == {i \in 1..Len(t) : t[i] \notin SpaceChars}
    IN  IF S = {} THEN <<>> ELSE SubSeq(t, Min(S), Max(S))

DigitValue(c) ==
    CASE c = "0" -> 0 [] c = "1" -> 1 [] c = "2" -> 2 [] c = "3" -> 3 [] c = "4" -> 4
      [] c = "5" -> 5 [] c = "6" -> 6 [] c = "7" -> 7 [] c = "8" -> 8 [] c = "9" -> 9
      [] c \in {"a", "A"} -> 10 [] c \in {"b", "B"} -> 11 [] c \in {"c", "C"} -> 12
      [] c \in {"d", "D"} -> 13 [] c \in {"e", "E"} -> 14 [] c \in {"f", "F"} -> 15

HexDigits == Digits \cup {"a", "b", "c", "d", "e", "f", "A", "B", "C", "D", "E", "F"}

RECURSIVE NumberValue(_, _)
\* the value of a string of digits in the given radix
NumberValue(ds, radix) ==
    IF ds = <<>> THEN 0
    ELSE NumberValue(SubSeq(ds, 1, Len(ds) - 1), radix) * radix + DigitValue(ds[Len(ds)])

\* the result of parseInt where no integer can be read.  parseInt of the
\* unsigned strings read here is never negative, so -1 is free to stand for
\* NaN, which is not an integer
NaN == -1

\* parseInt(str) of a string of \w characters (no sign, no leading space):
\* the leading digits, in base 16 after a 0x prefix; NaN when there are none
ParseInt(t) ==
    IF Len(t) >= 2 /\ t[1] = "0" /\ t[2] \in {"x", "X"}
    THEN LET k == RunEnd(t, 2, HexDigits)
         IN  IF k = 2 THEN NaN ELSE NumberValue(SubSeq(t, 3, k), 16)
    ELSE LET k == RunEnd(t, 0, Digits)
         IN  IF k = 0 THEN NaN ELSE NumberValue(SubSeq(t, 1, k), 10)

\* block.match(/<lit>(\d+)/): the digits captured by the leftmost match, or <<>>
DigitsAfter(t, lit) ==
    LET S == {i \in 0..Len(t) : MatchesAt(t, i, lit) /\ i + Len(lit) < Len(t)
                                   /\ At(t, i + Len(lit)) \in Digits}
        j == Min(S) + Len(lit)
    IN  IF S = {} THEN <<>> ELSE Substring(t, j, RunEnd(t, j, Digits))

\* the offset of the first line break at or after j, or the length: where a
\* run of . (any character but a line break) that starts at j must stop
DotRunEnd(t, j) ==
    Min({k \in j..Len(t) : k = Len(t) \/ At(t, k) \in LineTerminators})

\* block.match(/<lit>(.*?)\n/): found, and the text captured by the leftmost
\* match (the rest of the line, which must end in '\n')
RestOfLine(t, lit) ==
    LET S == {i \in 0..Len(t) : /\ MatchesAt(t, i, lit)
                                /\ DotRunEnd(t, i + Len(lit)) < Len(t)
                                /\ At(t, DotRunEnd(t, i + Len(lit))) = NL}
        j == Min(S) + Len(lit)
    IN  IF S = {} THEN [found |-> FALSE, value |-> <<>>]
        ELSE [found |-> TRUE, value |-> Substring(t, j, DotRunEnd(t, j))]

(***************************************************************************)
(* Block parsers.  Each returns <<>> for a rejected block (null in the     *)
(* source) and <<record>> for an accepted one.                             *)
(***************************************************************************)

\* a parser that leaves the field empty where the pattern does not match
UnknownLitMissing == <<>>

UnknownLit == <<"u", "n", "k", "n", "o", "w", "n">>

SpeedSpaceLit == <<"S", "p", "e", "e", "d", " ">>

\* typeLine.match(/(\w+) (\w+), (\w+)/)
SizeTypeMatch(line) ==
    LET Ok(i) == /\ At(line, i) \in WordChars
                 /\ LET k == RunEnd(line, i, WordChars)
                    IN  /\ k + 1 < Len(line)
                        /\ At(line, k) = " "
                        /\ At(line, k + 1) \in WordChars
                        /\ LET k2 == RunEnd(line, k + 1, WordChars)
                           IN  /\ MatchesAt(line, k2, <<",", " ">>)
                               /\ k2 + 2 < Len(line)
                               /\ At(line, k2 + 2) \in WordChars
        S == {i \in 0..(Len(line) - 1) : Ok(i)}
        i0 == Min(S)
        k == RunEnd(line, i0, WordChars)
        k2 == RunEnd(line, k + 1, WordChars)
    IN  IF S = {} THEN [found |-> FALSE]
        ELSE [found |-> TRUE,
              size |-> Substring(line, i0, k),
              type |-> Substring(line, k + 1, k2),
              alignment |-> Substring(line, k2 + 2, RunEnd(line, k2 + 2, WordChars))]

\* block.match(/Speed (\d+) ft/): the digits captured, or <<>>
SpeedDigits(t) ==
    LET Ok(i) == /\ MatchesAt(t, i, SpeedSpaceLit)
                 /\ i + Len(SpeedSpaceLit) < Len(t)
                 /\ At(t, i + Len(SpeedSpaceLit)) \in Digits
                 /\ MatchesAt(t, RunEnd(t, i + Len(SpeedSpaceLit), Digits), <<" ", "f", "t">>)
        S == {i \in 0..Len(t) : Ok(i)}
        j == Min(S) + Len(SpeedSpaceLit)
    IN  IF S = {} THEN <<>> ELSE Substring(t, j, RunEnd(t, j, Digits))

\* MonsterExtractor._parseMonsterBlock
ParseMonsterBlock(block) ==
    LET lines == Split(block)
        m == SizeTypeMatch(Trim(lines[2]))
        acDigits == DigitsAfter(block, <<"A", "C", " ">>)
        hpDigits == DigitsAfter(block, <<"H", "P", " ">>)
        speedDigits == SpeedDigits(block)
    IN  IF Len(lines) < 5 THEN <<>>
        ELSE << [name |-> Trim(lines[1]),
                 type |-> IF m.found THEN m.type ELSE UnknownLit,
                 size |-> IF m.found THEN m.size ELSE <<"M", "e", "d", "i", "u", "m">>,
                 alignment |-> IF m.found THEN m.alignment ELSE <<"u", "n", "a", "l", "i", "g", "n", "e", "d">>,
                 ac |-> IF acDigits # <<>> THEN ParseInt(acDigits) ELSE 10,
                 hp |-> IF hpDigits # <<>> THEN ParseInt(hpDigits) ELSE 10,
                 speed |-> IF speedDigits # <<>> THEN ParseInt(speedDigits) ELSE 30] >>

LevelLit == <<"-", "l", "e", "v", "e", "l", " ">>

\* levelLine.match(/(\w+)-level (\w+)/)
LevelMatch(line) ==
    LET Ok(i) == /\ At(line, i) \in WordChars
                 /\ LET k == RunEnd(line, i, WordChars)
                    IN  /\ MatchesAt(line, k, LevelLit)
                        /\ k + Len(LevelLit) < Len(line)
                        /\ At(line, k + Len(LevelLit)) \in WordChars
        S == {i \in 0..(Len(line) - 1) : Ok(i)}
        i0 == Min(S)
        k == RunEnd(line, i0, WordChars)
    IN  IF S = {} THEN [found |-> FALSE]
        ELSE [found |-> TRUE,
              level |-> Substring(line, i0, k),
              school |-> Substring(line, k + Len(LevelLit),
                                   RunEnd(line, k + Len(LevelLit), WordChars))]

\* the level of a matched level line: parseInt never throws, so the catch
\* clause that would set 0 is never entered
SpellLevel(captured) == ParseInt(captured)

\* SpellExtractor._parseSpellBlock
ParseSpellBlock(block) ==
    LET lines == Split(block)
        m == LevelMatch(Trim(lines[2]))
        castingTime == RestOfLine(block, <<"C", "a", "s", "t", "i", "n", "g", " ", "T", "i", "m", "e", ":", " ">>)
        range == RestOfLine(block, <<"R", "a", "n", "g", "e", ":", " ">>)
        components == RestOfLine(block, <<"C", "o", "m", "p", "o", "n", "e", "n", "t", "s", ":", " ">>)
        duration == RestOfLine(block, <<"D", "u", "r", "a", "t", "i", "o", "n", ":", " ">>)
        descriptionStart == IndexOf(block, DoubleNewline, 0)
    IN  IF Len(lines) < 5 THEN <<>>
        ELSE << [name |-> Trim(lines[1]),
                 level |-> IF m.found THEN SpellLevel(m.level) ELSE 0,
                 school |-> IF m.found THEN m.school ELSE UnknownLit,
                 casting_time |-> IF castingTime.found THEN Trim(castingTime.value) ELSE <<"1", " ", "a", "c", "t", "i", "o", "n">>,
                 range |-> IF range.found THEN Trim(range.value) ELSE <<"S", "e", "l", "f">>,
                 components |-> IF components.found THEN Trim(components.value) ELSE <<"V", ",", " ", "S">>,
                 duration |-> IF duration.found THEN Trim(duration.value) ELSE <<"I", "n", "s", "t", "a", "n", "t", "a", "n", "e", "o", "u", "s">>,
                 description |-> IF descriptionStart # -1
                                 THEN Trim(Substring(block, descriptionStart, Len(block)))
                                 ELSE <<>>] >>

\* RaceExtractor._parseRaceBlock (the identifier is added by Identified)
ParseRaceBlock(block) ==
    LET lines == Split(block)
    IN  IF Len(lines) < 3 THEN <<>>
        ELSE << [name |-> Trim(lines[1]), type |-> "race", description |-> block] >>

UnknownTraitLit == <<"U", "n", "k", "n", "o", "w", "n", " ", "T", "r", "a", "i", "t">>

UnknownFeatLit == <<"U", "n", "k", "n", "o", "w", "n", " ", "F", "e", "a", "t">>

UnknownTableLit == <<"U", "n", "k", "n", "o", "w", "n", " ", "T", "a", "b", "l", "e">>

\* a capture that stops at the first white space
RunAfterNoSpace(line, lit, class) ==
    LET S == {i \in 0..Len(line) : /\ MatchesAt(line, i, lit)
                                   /\ i + Len(lit) < Len(line)
                                   /\ At(line, i + Len(lit)) \in class \ SpaceChars}
        j == Min(S) + Len(lit)
    IN  IF S = {} THEN [found |-> FALSE, value |-> <<>>]
        ELSE [found |-> TRUE, value |-> Substring(line, j, RunEnd(line, j, class \ SpaceChars))]

\* line.match(/<lit>([<class>]+)/): found, and the run captured by the
\* leftmost match
RunAfter(line, lit, class) ==
    LET S == {i \in 0..Len(line) : /\ MatchesAt(line, i, lit)
                                   /\ i + Len(lit) < Len(line)
                                   /\ At(line, i + Len(lit)) \in class}
        j == Min(S) + Len(lit)
    IN  IF S = {} THEN [found |-> FALSE, value |-> <<>>]
        ELSE [found |-> TRUE, value |-> Substring(line, j, RunEnd(line, j, class))]

\* TraitExtractor._parseTraitBlock (the identifier is added by Identified)
ParseTraitBlock(block) ==
    LET lines == Split(block)
        nameMatch == RunAfter(lines[1], TraitPrefix, WordSpace)
    IN  IF Len(lines) < 2 THEN <<>>
        ELSE << [name |-> IF nameMatch.found THEN Trim(nameMatch.value) ELSE UnknownTraitLit,
                 type |-> "feat",
                 description |-> block,
                 requirements |-> <<>>] >>

\* FeatExtractor._parseFeatBlock (the identifier is added by Identified)
ParseFeatBlock(block) ==
    LET lines == Split(block)
        nameMatch == RunAfter(lines[1], FeatPrefix, WordSpace)
        prereqMatch == RunAfter(lines[2], <<"P", "r", "e", "r", "e", "q", "u", "i", "s", "i", "t", "e", ":", " ">>, WordSpaceComma)
    IN  IF Len(lines) < 3 THEN <<>>
        ELSE << [name |-> IF nameMatch.found THEN Trim(nameMatch.value) ELSE UnknownFeatLit,
                 type |-> "feat",
                 description |-> block,
                 requirements |-> IF prereqMatch.found THEN Trim(prereqMatch.value) ELSE <<>>] >>

\* lines[0].match(/(\w[\w\s]+) Table/): found, and the captured name
TableNameMatch(line) ==
    LET Ends(i) == {e \in (i + 2)..RunEnd(line, i + 1, WordSpace) : MatchesAt(line, e, <<" ", "T", "a", "b", "l", "e">>)}
        S == {i \in 0..(Len(line) - 1) : At(line, i) \in WordChars /\ Ends(i) # {}}
    IN  IF S = {} THEN [found |-> FALSE, value |-> <<>>]
        ELSE [found |-> TRUE, value |-> Substring(line, Min(S), Max(Ends(Min(S))))]

\* lines[1].match(/(d\d+|\d+d\d+)/): found, and the captured die expression
DieMatch(line) ==
    LET S == {i \in 0..(Len(line) - 1) : DieMatchEnd(line, i) # -1}
    IN  IF S = {} THEN [found |-> FALSE, value |-> <<>>]
        ELSE [found |-> TRUE, value |-> Substring(line, Min(S), DieMatchEnd(line, Min(S)))]

\* line.match(/(\d+)(?:-(\d+))? (.+)/) at offset i: the three captures, with
\* hasEnd telling whether the optional group took part
EntryMatchAt(line, i) ==
    LET j == RunEnd(line, i, Digits)
        k == RunEnd(line, j + 1, Digits)
    IN  IF ~(i < Len(line) /\ At(line, i) \in Digits) THEN [found |-> FALSE]
        ELSE IF /\ j + 1 < Len(line) /\ At(line, j) = "-" /\ At(line, j + 1) \in Digits
                /\ k + 1 < Len(line) /\ At(line, k) = " "
                /\ At(line, k + 1) \notin LineTerminators
             THEN [found |-> TRUE, start |-> Substring(line, i, j), hasEnd |-> TRUE,
                   end |-> Substring(line, j + 1, k),
                   text |-> Substring(line, k + 1, DotRunEnd(line, k + 1))]
        ELSE IF /\ j + 1 < Len(line) /\ At(line, j) = " "
                /\ At(line, j + 1) \notin LineTerminators
             THEN [found |-> TRUE, start |-> Substring(line, i, j), hasEnd |-> FALSE,
                   end |-> <<>>,
                   text |-> Substring(line, j + 1, DotRunEnd(line, j + 1))]
        ELSE [found |-> FALSE]

\* line.match(/(\d+)(?:-(\d+))? (.+)/): the leftmost match
EntryMatch(line) ==
    LET S == {i \in 0..(Len(line) - 1) : EntryMatchAt(line, i).found}
    IN  IF S = {} THEN [found |-> FALSE] ELSE EntryMatchAt(line, Min(S))

\* a loop that stops one face short of rangeEnd (r < rangeEnd)
RangeEntriesExclusive(rangeStart, rangeEnd, resultText) ==
    IF rangeEnd <= rangeStart THEN <<>>
    ELSE [n \in 1..(rangeEnd - rangeStart) |->
             [range |-> <<rangeStart + n - 1, rangeStart + n - 1>>, text |-> resultText]]

\* the result entries pushed for the faces rangeStart..rangeEnd
RangeEntries(rangeStart, rangeEnd, resultText) ==
    IF rangeEnd < rangeStart THEN <<>>
    ELSE [n \in 1..(rangeEnd - rangeStart + 1) |->
             [range |-> <<rangeStart + n - 1, rangeStart + n - 1>>, text |-> resultText]]

\* the body of the loop over lines[2..]: the entries one line contributes
LineEntries(rawLine) ==
    LET line == Trim(rawLine)
        entryMatch == EntryMatch(line)
        rangeStart == ParseInt(entryMatch.start)
        rangeEnd == IF entryMatch.hasEnd THEN ParseInt(entryMatch.end) ELSE rangeStart
    IN  IF line = <<>> THEN <<>>
        ELSE IF ~entryMatch.found THEN <<>>
        ELSE RangeEntries(rangeStart, rangeEnd, entryMatch.text)

RECURSIVE TableEntries(_)
\* the loop over the body lines: results, in line order
TableEntries(bodyLines) ==
    IF bodyLines = <<>> THEN <<>>
    ELSE LineEntries(Head(bodyLines)) \o TableEntries(Tail(bodyLines))

\* RollTableExtractor._parseRollTableBlock
ParseRollTableBlock(block) ==
    LET lines == Split(block)
        nameMatch == TableNameMatch(lines[1])
        dieMatch == DieMatch(lines[2])
    IN  IF Len(lines) < 4 THEN <<>>
        ELSE << [name |-> IF nameMatch.found THEN Trim(nameMatch.value) ELSE UnknownTableLit,
                 description |-> Join(SubSeq(lines, 3, Len(lines))),
                 formula |-> IF dieMatch.found THEN dieMatch.value ELSE <<"d", "2", "0">>,
                 results |-> TableEntries(SubSeq(lines, 3, Len(lines)))] >>

ParseBlock(p, block) ==
    CASE p = "monsters"   -> ParseMonsterBlock(block)
      [] p = "spells"     -> ParseSpellBlock(block)
      [] p = "races"      -> ParseRaceBlock(block)
      [] p = "traits"     -> ParseTraitBlock(block)
      [] p = "feats"      -> ParseFeatBlock(block)
      [] p = "rolltables" -> ParseRollTableBlock(block)

\* the number of characters of an identifier (the program's template
\* 'xxxxxxxxxxxx' has 12)
UUIDLength == 1

\* the largest value Math.random() * 16 | 0 takes (15 in the program)
MaxHexDigit == 1

\* generateUUID(): the strings it can return, every x of the template
\* replaced by a hexadecimal digit drawn at random
GenerateUUID ==
    [1..UUIDLength ->
        {<<"0", "1", "2", "3", "4", "5", "6", "7", "8", "9",
           "a", "b", "c", "d", "e", "f">>[v + 1] : v \in 0..MaxHexDigit}]

\* the record of _parseRaceBlock, _parseTraitBlock or _parseFeatBlock with
\* its system.identifier, the value generateUUID() returned; the records of
\* the other parsers have no such field
Identified(p, data, uuid) ==
    IF data = <<>> THEN data
    ELSE CASE p = "races" ->
                  << [name |-> data[1].name, type |-> data[1].type,
                      description |-> data[1].description, identifier |-> uuid] >>
           [] p \in {"traits", "feats"} ->
                  << [name |-> data[1].name, type |-> data[1].type,
                      description |-> data[1].description,
                      requirements |-> data[1].requirements, identifier |-> uuid] >>
           [] OTHER -> data

(***************************************************************************)
(* The blocks a parser is run on: at most MaxLines lines joined by line    *)
(* breaks, the first, the second and the later lines drawn from the pools  *)
(* of the parser's category.                                               *)
(***************************************************************************)
MaxLines == 5

\* the lines a block of parser p is built from: the first, the second and
\* the later lines
LinePool(p, n) ==
    CASE p = "monsters" ->
        \* first lines: 'Goblin', '', ' Orc '
        IF n = 1 THEN
            { <<"G", "o", "b", "l", "i", "n">>,
              <<>>,
              <<" ", "O", "r", "c", " ">> }
        \* second lines: 'Small humanoid, neutral', 'beast'
        ELSE IF n = 2 THEN
            { <<"S", "m", "a", "l", "l", " ", "h", "u", "m", "a", "n", "o", "i", "d", ",", " ", "n", "e", "u", "t", "r", "a", "l">>,
              <<"b", "e", "a", "s", "t">> }
        \* later lines: 'AC 15', 'HP 20', 'Speed 30 ft', 'x'
        ELSE
            { <<"A", "C", " ", "1", "5">>,
              <<"H", "P", " ", "2", "0">>,
              <<"S", "p", "e", "e", "d", " ", "3", "0", " ", "f", "t">>,
              <<"x">> }
      [] p = "spells" ->
        \* first lines: 'Fireball', ''
        IF n = 1 THEN
            { <<"F", "i", "r", "e", "b", "a", "l", "l">>,
              <<>> }
        \* second lines: '3rd-level evocation', 'first-level evocation', 'cantrip'
        ELSE IF n = 2 THEN
            { <<"3", "r", "d", "-", "l", "e", "v", "e", "l", " ", "e", "v", "o", "c", "a", "t", "i", "o", "n">>,
              <<"f", "i", "r", "s", "t", "-", "l", "e", "v", "e", "l", " ", "e", "v", "o", "c", "a", "t", "i", "o", "n">>,
              <<"c", "a", "n", "t", "r", "i", "p">> }
        \* later lines: 'Casting Time: 1 action', 'Range: 150 feet', '', 'x'
        ELSE
            { <<"C", "a", "s", "t", "i", "n", "g", " ", "T", "i", "m", "e", ":", " ", "1", " ", "a", "c", "t", "i", "o", "n">>,
              <<"R", "a", "n", "g", "e", ":", " ", "1", "5", "0", " ", "f", "e", "e", "t">>,
              <<>>,
              <<"x">> }
      [] p = "races" ->
        \* first lines: 'Elf', '', ' '
        IF n = 1 THEN
            { <<"E", "l", "f">>,
              <<>>,
              <<" ">> }
        \* second lines: 'Racial Traits', 'x'
        ELSE IF n = 2 THEN
            { <<"R", "a", "c", "i", "a", "l", " ", "T", "r", "a", "i", "t", "s">>,
              <<"x">> }
        \* later lines: 'Racial Traits', 'x'
        ELSE
            { <<"R", "a", "c", "i", "a", "l", " ", "T", "r", "a", "i", "t", "s">>,
              <<"x">> }
      [] p = "traits" ->
        \* first lines: 'Trait: Brave', 'Trait:  ', 'Brave', ''
        IF n = 1 THEN
            { <<"T", "r", "a", "i", "t", ":", " ", "B", "r", "a", "v", "e">>,
              <<"T", "r", "a", "i", "t", ":", " ", " ">>,
              <<"B", "r", "a", "v", "e">>,
              <<>> }
        \* second lines: 'x', ''
        ELSE IF n = 2 THEN
            { <<"x">>,
              <<>> }
        \* later lines: 'x', ''
        ELSE
            { <<"x">>,
              <<>> }
      [] p = "feats" ->
        \* first lines: 'Feat: Alert', 'Alert', 'Feat:  '
        IF n = 1 THEN
            { <<"F", "e", "a", "t", ":", " ", "A", "l", "e", "r", "t">>,
              <<"A", "l", "e", "r", "t">>,
              <<"F", "e", "a", "t", ":", " ", " ">> }
        \* second lines: 'Prerequisite: Dex 13, Elf', 'none'
        ELSE IF n = 2 THEN
            { <<"P", "r", "e", "r", "e", "q", "u", "i", "s", "i", "t", "e", ":", " ", "D", "e", "x", " ", "1", "3", ",", " ", "E", "l", "f">>,
              <<"n", "o", "n", "e">> }
        \* later lines: 'x'
        ELSE
            { <<"x">> }
      [] p = "rolltables" ->
        \* first lines: 'Wandering Monsters Table', 'Loot'
        IF n = 1 THEN
            { <<"W", "a", "n", "d", "e", "r", "i", "n", "g", " ", "M", "o", "n", "s", "t", "e", "r", "s", " ", "T", "a", "b", "l", "e">>,
              <<"L", "o", "o", "t">> }
        \* second lines: 'd6', 'x'
        ELSE IF n = 2 THEN
            { <<"d", "6">>,
              <<"x">> }
        \* later lines: '1-2 Goblin scout', '3 Ogre', '4-6 Nothing', '2-4 b', 'Roll 3 times', '', 'notes', '10-11 x 2', '5-3 z'
        ELSE
            { <<"1", "-", "2", " ", "G", "o", "b", "l", "i", "n", " ", "s", "c", "o", "u", "t">>,
              <<"3", " ", "O", "g", "r", "e">>,
              <<"4", "-", "6", " ", "N", "o", "t", "h", "i", "n", "g">>,
              <<"2", "-", "4", " ", "b">>,
              <<"R", "o", "l", "l", " ", "3", " ", "t", "i", "m", "e", "s">>,
              <<>>,
              <<"n", "o", "t", "e", "s">>,
              <<"1", "0", "-", "1", "1", " ", "x", " ", "2">>,
              <<"5", "-", "3", " ", "z">> }

RECURSIVE LineSeqs(_, _)
LineSeqs(p, n) ==
    IF n = 0 THEN {<<>>}
    ELSE {Append(ls, l) : ls \in LineSeqs(p, n - 1), l \in LinePool(p, n)}

Blocks(p) == {Join(ls) : ls \in UNION {LineSeqs(p, n) : n \in 1..MaxLines}}

\* no locator pass is modelled
LocateIdle ==
    /\ text = <<>>
    /\ locator = "none"
    /\ profile = "generic"
    /\ lastIndex = 0
    /\ blocks = <<>>
    /\ locPc = "idle"

InitParse ==
    /\ previous = <<>>
    /\ ServerIdle
    /\ LocateIdle
    /\ RunIdle
    /\ AppIdle
    /\ ExtractIdle
    /\ parser \in {"monsters", "spells", "races", "traits", "feats", "rolltables"}
    /\ parseInput \in Blocks(parser)
    /\ parsed = <<>>
    /\ parsePc = "input"

\* the call of the parser on the block
Parse ==
    /\ parsePc = "input"
    /\ \E uuid \in GenerateUUID :
           parsed' = Identified(parser, ParseBlock(parser, parseInput), uuid)
    /\ parsePc' = "done"
    /\ UNCHANGED <<parseInput, parser>>
    /\ UNCHANGED notParseVars

NextParse == Parse

SpecParse == InitParse /\ [][NextParse]_vars

(***************************************************************************)
(* The PDF document and the extraction of its text.  A document is a       *)
(* sequence of pages; a page is the text of its items joined by spaces.    *)
(***************************************************************************)
MaxPages == 2

\* the texts of the pages a document is made of
PageTexts ==
    { \* with one monster: 'Ogre', 'Large giant, evil', 'AC 11 HP 59 Speed 40 ft'
      <<"O", "g", "r", "e", "\n", "L", "a", "r", "g", "e", " ", "g", "i", "a", "n", "t", ",", " ", "e", "v", "i", "l", "\n", "A", "C", " ", "1", "1", " ", "H", "P", " ", "5", "9", " ", "S", "p", "e", "e", "d", " ", "4", "0", " ", "f", "t">>,
      \* with one trait: 'Trait: Brave', 'x'
      <<"T", "r", "a", "i", "t", ":", " ", "B", "r", "a", "v", "e", "\n", "x">>,
      \* with one race: 'Elf', 'Racial Traits', 'x'
      <<"E", "l", "f", "\n", "R", "a", "c", "i", "a", "l", " ", "T", "r", "a", "i", "t", "s", "\n", "x">>,
      \* with one stat block: 'Goblin', '(x)', 'Armor Class 15 (x)', 'Hit Points 7 (2d6)', the ability header, the ability scores, 'Actions'
      <<"G", "o", "b", "l", "i", "n", "\n", "(", "x", ")", "\n", "A", "r", "m", "o", "r", " ", "C", "l", "a", "s", "s", " ", "1", "5", " ", "(", "x", ")", "\n", "H", "i", "t", " ", "P", "o", "i", "n", "t", "s", " ", "7", " ", "(", "2", "d", "6", ")", "\n", "S", "T", "R", " ", "D", "E", "X", " ", "C", "O", "N", " ", "I", "N", "T", " ", "W", "I", "S", " ", "C", "H", "A", "\n", "S", "T", "R", " ", "8", " ", "(", "-", "1", ")", " ", "D", "E", "X", " ", "1", "4", " ", "(", "+", "2", ")", " ", "C", "O", "N", " ", "1", "0", " ", "(", "+", "0", ")", " ", "I", "N", "T", " ", "1", "0", " ", "(", "+", "0", ")", " ", "W", "I", "S", " ", "8", " ", "(", "-", "1", ")", " ", "C", "H", "A", " ", "8", " ", "(", "-", "1", ")", "\n", "A", "c", "t", "i", "o", "n", "s">> }

Documents == UNION {[1..n -> PageTexts] : n \in 1..MaxPages}

\* the most characters on a page of a document given to the application
MaxAppPageLen == 50

\* pageRange?.start || 1   (pageRange is <<>> for null, <<record>> otherwise)
StartPage(range) ==
    IF range # <<>> /\ range[1].start # 0 THEN range[1].start ELSE 1

\* pageRange?.end ? Math.min(pageRange.end, numPages) : numPages
EndPage(range, numPages) ==
    IF range # <<>> /\ range[1].end # 0 THEN Min({range[1].end, numPages}) ELSE numPages

\* the page numbers visited by  for (let i = startPage; i <= endPage; i++)
PageNumbers(range, numPages) ==
    IF EndPage(range, numPages) < StartPage(range) THEN <<>>
    ELSE [n \in 1..(EndPage(range, numPages) - StartPage(range) + 1) |->
             StartPage(range) + n - 1]

RECURSIVE JoinPages(_, _, _)
\* text += <page text> + separator, for each visited page in turn
JoinPages(doc, numbers, separator) ==
    IF numbers = <<>> THEN <<>>
    ELSE doc[Head(numbers)] \o separator \o JoinPages(doc, Tail(numbers), separator)

\* PDFExtractor.extractText(pageRange): what it returns when no page read fails
ExtractText(doc, range) ==
    JoinPages(doc, PageNumbers(range, Len(doc)), <<NL>>)

\* OCRHandler.processPages(pages) over the pages of the range: what it
\* returns when the worker recognises each page's text
ProcessPages(doc, range) ==
    JoinPages(doc, PageNumbers(range, Len(doc)), DoubleNewline)

(***************************************************************************)
(* parsePageRange of pdf-utils.js.                                         *)
(***************************************************************************)
\* rangeStr.match(/^(\d+)(?:\s*-\s*(\d+))?$/): the two captures, the second
\* one <<>> when the optional group takes no part
PageRangeMatch(rangeStr) ==
    LET j == RunEnd(rangeStr, 0, Digits)
        s1 == RunEnd(rangeStr, j, SpaceChars)
        s2 == IF s1 < Len(rangeStr) THEN RunEnd(rangeStr, s1 + 1, SpaceChars) ELSE s1
        k == RunEnd(rangeStr, s2, Digits)
    IN  IF j = 0 THEN [found |-> FALSE, start |-> <<>>, end |-> <<>>]
        ELSE IF j = Len(rangeStr)
             THEN [found |-> TRUE, start |-> rangeStr, end |-> <<>>]
        ELSE IF s1 < Len(rangeStr) /\ At(rangeStr, s1) = "-" /\ k > s2 /\ k = Len(rangeStr)
             THEN [found |-> TRUE, start |-> Substring(rangeStr, 0, j),
                   end |-> Substring(rangeStr, s2, k)]
        ELSE [found |-> FALSE, start |-> <<>>, end |-> <<>>]

\* a parsePageRange that accepts an end below the start
ParsePageRangeUnordered(rangeStr) ==
    LET match == PageRangeMatch(rangeStr)
        start == ParseInt(match.start)
        end == IF match.end # <<>> THEN ParseInt(match.end) ELSE start
    IN  IF rangeStr = <<>> \/ Trim(rangeStr) = <<>> THEN <<>>
        ELSE IF ~match.found THEN <<>>
        ELSE IF start = NaN \/ end = NaN \/ start < 1 THEN <<>>
        ELSE <<[start |-> start, end |-> end]>>

\* parsePageRange(rangeStr): <<>> for null, <<[start, end]>> otherwise
ParsePageRange(rangeStr) ==
    LET match == PageRangeMatch(rangeStr)
        start == ParseInt(match.start)
        end == IF match.end # <<>> THEN ParseInt(match.end) ELSE start
    IN  IF rangeStr = <<>> \/ Trim(rangeStr) = <<>> THEN <<>>
        ELSE IF ~match.found THEN <<>>
        ELSE IF start = NaN \/ end = NaN \/ start < 1 \/ end < start THEN <<>>
        ELSE <<[start |-> start, end |-> end]>>

(***************************************************************************)
(* The creature records of UnifiedPDFProcessor._extractCreatures.          *)
(***************************************************************************)
\* case folding of the i flag
ToLower(c) ==
    LET upperSeq == <<"A", "B", "C", "D", "E", "F", "G", "H", "I", "J", "K", "L", "M",
                      "N", "O", "P", "Q", "R", "S", "T", "U", "V", "W", "X", "Y", "Z">>
        lowerSeq == <<"a", "b", "c", "d", "e", "f", "g", "h", "i", "j", "k", "l", "m",
                      "n", "o", "p", "q", "r", "s", "t", "u", "v", "w", "x", "y", "z">>
    IN  IF c \in Upper THEN lowerSeq[CHOOSE n \in 1..26 : upperSeq[n] = c] ELSE c

\* the literal lit occurs in t at offset i, letter case ignored
MatchesAtIgnoreCase(t, i, lit) ==
    /\ i >= 0
    /\ i + Len(lit) <= Len(t)
    /\ \A k \in 1..Len(lit) : ToLower(t[i + k]) = ToLower(lit[k])

\* t.charAt(i): the empty string beyond the end
CharAt(t, i) == IF i >= 0 /\ i < Len(t) THEN At(t, i) ELSE ""

\* the offset after the run of class C at j, j itself at or beyond the end
RunEndFrom(t, j, C) == IF j >= Len(t) THEN j ELSE RunEnd(t, j, C)

ArmorClassSpaceLit == ArmorClassLit \o <<" ">>

HitPointsSpaceLit == HitPointsLit \o <<" ">>

\* dnd5e acPattern /Armor Class (\d+)/i: the digits captured, or <<>>
AcMatch(block) ==
    LET S == {i \in 0..Len(block) :
                 /\ MatchesAtIgnoreCase(block, i, ArmorClassSpaceLit)
                 /\ CharAt(block, i + Len(ArmorClassSpaceLit)) \in Digits}
        j == Min(S) + Len(ArmorClassSpaceLit)
    IN  IF S = {} THEN <<>> ELSE Substring(block, j, RunEnd(block, j, Digits))

\* dnd5e hpPattern /Hit Points (\d+) \((\d+)d(\d+)(?:\s?\+\s?(\d+))?\)/i
\* matches at offset i
HpMatchAt(block, i) ==
    LET a == i + Len(HitPointsSpaceLit)
        b == RunEndFrom(block, a, Digits)
        c == RunEndFrom(block, b + 2, Digits)
        d == RunEndFrom(block, c + 1, Digits)
        p == IF CharAt(block, d) \in SpaceChars THEN d + 1 ELSE d
        q == IF CharAt(block, p + 1) \in SpaceChars THEN p + 2 ELSE p + 1
        e == RunEndFrom(block, q, Digits)
    IN  /\ MatchesAtIgnoreCase(block, i, HitPointsSpaceLit)
        /\ b > a
        /\ MatchesAt(block, b, <<" ", "(">>)
        /\ c > b + 2
        /\ CharAt(block, c) \in {"d", "D"}
        /\ d > c + 1
        /\ \/ CharAt(block, d) = ")"
           \/ CharAt(block, p) = "+" /\ e > q /\ CharAt(block, e) = ")"

\* hpPattern.exec(block): the digits of the first capture, or <<>>
HpMatch(block) ==
    LET S == {i \in 0..Len(block) : HpMatchAt(block, i)}
        j == Min(S) + Len(HitPointsSpaceLit)
    IN  IF S = {} THEN <<>> ELSE Substring(block, j, RunEnd(block, j, Digits))

RECURSIVE AbilityScoresAt(_, _, _)
\* NAME\s+(\d+)\s+\(([-+]\d+)\) for each of names in turn, \s+ between them,
\* at offset p: the scores captured, or <<>> when there is no match
AbilityScoresAt(t, p, names) ==
    LET a == p + Len(names[1])
        b == RunEndFrom(t, a, SpaceChars)
        c == RunEndFrom(t, b, Digits)
        d == RunEndFrom(t, c, SpaceChars)
        e == RunEndFrom(t, d + 2, Digits)
        f == RunEndFrom(t, e + 1, SpaceChars)
        rest == AbilityScoresAt(t, f, Tail(names))
        here == /\ MatchesAt(t, p, names[1])
                /\ b > a /\ c > b /\ d > c
                /\ CharAt(t, d) = "("
                /\ CharAt(t, d + 1) \in {"-", "+"}
                /\ e > d + 2
                /\ CharAt(t, e) = ")"
    IN  IF ~here THEN <<>>
        ELSE IF Len(names) = 1 THEN <<ParseInt(Substring(t, b, c))>>
        ELSE IF f > e + 1 /\ rest # <<>> THEN <<ParseInt(Substring(t, b, c))>> \o rest
        ELSE <<>>

\* abilityScorePattern.exec(block): the six scores str..cha, or <<>>
AbilityMatch(block) ==
    LET S == {p \in 0..Len(block) : AbilityScoresAt(block, p, AbilityNames) # <<>>}
    IN  IF S = {} THEN <<>> ELSE AbilityScoresAt(block, Min(S), AbilityNames)

(***************************************************************************)
(* The system profiles.  A profile is named by its class: "generic" is the *)
(* base SystemConfig, the others are the configurations of                 *)
(* getAvailableSystemConfigs, in its order.                                *)
(***************************************************************************)
AvailableSystemConfigs == <<"dnd5e", "pf2e", "wod", "startrek", "cityofmist">>

\* a lookup that returns the first configuration whatever the id
GetFirstSystemConfig(id) == AvailableSystemConfigs[1]

\* config.id
SystemConfigId(prof) == IF prof = "generic" THEN "base" ELSE prof

\* getSystemConfigById(id): configs.find(config => config.id === id), or the
\* base SystemConfig
GetSystemConfigById(id) ==
    LET S == {n \in 1..Len(AvailableSystemConfigs) :
                  SystemConfigId(AvailableSystemConfigs[n]) = id}
    IN  IF S = {} THEN "generic" ELSE AvailableSystemConfigs[Min(S)]

\* this.extractionPatterns: for each content type that has an entry, the
\* names of its patterns
ExtractionPatterns(prof) ==
    CASE prof = "generic" ->
             [monsters |-> {"namePattern", "statBlockStart", "statBlockEnd"},
              spells |-> {"namePattern", "levelPattern", "castingTimePattern", "rangePattern"}]
      [] prof = "dnd5e" ->
             [monsters |-> {"namePattern", "sizeTypePattern", "acPattern", "hpPattern",
                            "statBlockStart", "statBlockEnd"},
              spells |-> {"namePattern", "levelPattern", "schoolPattern", "castingTimePattern",
                          "rangePattern", "componentsPattern", "durationPattern"},
              feats |-> {"namePattern", "prerequisitePattern"}]
      [] prof = "pf2e" ->
             [monsters |-> {"namePattern", "traitsPattern", "perceptionPattern",
                            "statBlockStart", "statBlockEnd"},
              spells |-> {"namePattern", "traitsPattern", "castingTimePattern", "rangePattern",
                          "targetsPattern", "durationPattern"}]
      [] prof = "wod" ->
             [characters |-> {"namePattern", "attributesPattern", "skillsPattern", "powersPattern"},
              powers |-> {"namePattern", "costPattern", "dicePoolPattern"}]
      [] prof = "startrek" ->
             [characters |-> {"namePattern", "attributesPattern", "disciplinesPattern", "valuesPattern"},
              starships |-> {"namePattern", "servicePattern", "systemsPattern", "departmentsPattern"}]
      [] prof = "cityofmist" ->
             [characters |-> {"namePattern", "themesPattern", "statusPattern"},
              moves |-> {"namePattern", "triggerPattern", "effectPattern"}]

\* getExtractionPatterns(contentType): this.extractionPatterns[contentType] || {}
GetExtractionPatterns(prof, contentType) ==
    IF contentType \in DOMAIN ExtractionPatterns(prof)
    THEN ExtractionPatterns(prof)[contentType]
    ELSE {}

\* UnifiedPDFProcessor._parseCreatureBlock: a field is <<>> when it is not
\* set and <<value>> when it is; abilities is <<>> or the six scores
ParseCreatureBlock(prof, block) ==
    LET patterns == GetExtractionPatterns(prof, "monsters")
        acMatch == IF "acPattern" \in patterns THEN AcMatch(block) ELSE <<>>
        hpMatch == IF "hpPattern" \in patterns THEN HpMatch(block) ELSE <<>>
    IN  [ac |-> IF acMatch # <<>> THEN <<ParseInt(acMatch)>> ELSE <<>>,
         hp |-> IF hpMatch # <<>> THEN <<ParseInt(hpMatch)>> ELSE <<>>,
         abilities |-> AbilityMatch(block)]


RECURSIVE ExtractCreaturesFrom(_, _, _)
\* the while loop of _extractCreatures from lastIndex = from: the creatures pushed
ExtractCreaturesFrom(prof, t, from) ==
    LET m == NameMatch(t, from)
        it == CreatureIteration(prof, t, m)
        creature == [name |-> it.name,
                     type |-> "creature",
                     system |-> SystemConfigId(prof),
                     data |-> ParseCreatureBlock(prof, BlockText(t, it.span))]
    IN  IF m = NoMatch THEN <<>>
        ELSE (IF it.hasBlock THEN <<creature>> ELSE <<>>)
                 \o ExtractCreaturesFrom(prof, t, it.lastIndex)

\* UnifiedPDFProcessor._extractCreatures(text, patterns)
ExtractCreatures(prof, t) == ExtractCreaturesFrom(prof, t, 0)

\* a switch with a case for every requested content type
AllRequestedSupported == RunContentTypes

\* the content types _extractContentByType has a case for
SupportedContentTypes ==
    {"monsters", "characters", "spells", "powers", "items", "equipment",
     "adventures", "lore", "cases", "glossary", "races", "species",
     "backgrounds", "traits", "tags", "feats", "talents", "moves",
     "rolltables", "starships", "locations", "themes"}

\* UnifiedPDFProcessor._extractContentByType for the requested content types:
\* only the creature scan extracts anything, every other case returns []
ExtractContentByType(contentType, t, prof) ==
    IF contentType = "monsters" THEN ExtractCreatures(prof, t) ELSE <<>>

(***************************************************************************)
(* UnifiedPDFProcessor.process.  The steps are the stretches of the async  *)
(* function that run without interruption: obtaining the text, one pass of *)
(* the loop over the content types, and the return.  A field of results is *)
(* <<>> while it is not set and <<list>> once it is.                       *)
(***************************************************************************)
\* the lengths of the contentTypes arrays given to the constructor
MaxContentTypes == 2

ContentTypeLists ==
    UNION {[1..n -> RunContentTypes] : n \in 0..MaxContentTypes}

\* options.pageRange || null: an object the constructor does not validate
RunPageRanges ==
    { <<>>,
      <<[start |-> 1, end |-> 1]>>,
      <<[start |-> 1, end |-> 2]>>,
      <<[start |-> 2, end |-> 1]>>,
      <<[start |-> 2, end |-> 3]>> }

\* the system ids given to the constructor.  The creature scan is modelled
\* with the name and stat-block patterns of the base profile and of dnd5e, so
\* the other systems are run on the content types that read no pattern
SystemIds ==
    {"dnd5e", "pf2e", "wod", "startrek", "cityofmist", "nonexistent-system"}

\* the constructor of UnifiedPDFProcessor and of its OCRHandler
InitRun ==
    /\ pdfDoc \in Documents
    /\ systemId \in SystemIds
    /\ contentTypes \in ContentTypeLists
    /\ systemId \notin {"dnd5e", "nonexistent-system"} =>
           \A n \in 1..Len(contentTypes) : contentTypes[n] # "monsters"
    /\ pageRange \in RunPageRanges
    /\ useOCR \in BOOLEAN
    /\ ocrEnabled \in BOOLEAN
    /\ ocrWorker = FALSE
    /\ runText = <<>>
    /\ results = [c \in RunContentTypes |-> <<>>]
    /\ warnings = {}
    /\ nextType = 1
    /\ failedType = <<>>
    /\ runPc = "start"

\* a process without the finally clause
NotTerminated == ocrWorker

\* the finally clause: ocrHandler.terminate() when OCR was asked for
Terminated == IF useOCR THEN FALSE ELSE ocrWorker

\* loadPDF and the extraction of the text succeed.  On the OCR path the
\* worker is created by initOCRWorker or, when its creation fails, stays
\* null: processPage then throws unless there is no page to process
ProcessObtainText ==
    /\ runPc = "start"
    /\ \E created \in BOOLEAN :
           LET ocrPath == useOCR /\ ocrEnabled
           IN  /\ (ocrPath /\ ~created) => PageNumbers(pageRange, Len(pdfDoc)) = <<>>
               /\ ocrWorker' = (ocrPath /\ created)
               /\ runText' = << IF ocrPath THEN ProcessPages(pdfDoc, pageRange)
                                ELSE ExtractText(pdfDoc, pageRange) >>
    /\ runPc' = "loop"
    /\ UNCHANGED <<pdfDoc, systemId, contentTypes, pageRange, useOCR, ocrEnabled,
                   results, warnings, nextType, failedType>>
    /\ UNCHANGED notRunVars

\* loadPDF, a page read or the OCR of a page fails: the catch clause
\* rethrows and the run ends without a text
ProcessTextFails ==
    /\ runPc = "start"
    /\ runPc' = "thrown"
    /\ ocrWorker' = Terminated
    /\ UNCHANGED <<pdfDoc, systemId, contentTypes, pageRange, useOCR, ocrEnabled,
                   runText, results, warnings, nextType, failedType>>
    /\ UNCHANGED notRunVars

\* one pass of  for (const contentType of this.contentTypes)
ProcessContentType ==
    /\ runPc = "loop"
    /\ nextType <= Len(contentTypes)
    /\ LET contentType == contentTypes[nextType]
           extractedContent == ExtractContentByType(contentType, runText[1],
                                                    GetSystemConfigById(systemId))
       IN  /\ results' = [results EXCEPT ![contentType] = <<extractedContent>>]
           /\ warnings' = IF contentType \in SupportedContentTypes THEN warnings
                          ELSE warnings \cup {contentType}
    /\ nextType' = nextType + 1
    /\ UNCHANGED <<pdfDoc, systemId, contentTypes, pageRange, useOCR, ocrEnabled,
                   ocrWorker, runText, failedType, runPc>>
    /\ UNCHANGED notRunVars

\* an exception is raised while a content type is located and parsed (the
\* default case of the switch only warns and returns []): nothing in the
\* loop catches it, the catch clause of process logs it and rethrows
ProcessContentTypeThrows ==
    /\ runPc = "loop"
    /\ nextType <= Len(contentTypes)
    /\ contentTypes[nextType] \in SupportedContentTypes
    /\ failedType' = <<contentTypes[nextType]>>
    /\ runPc' = "thrown"
    /\ ocrWorker' = Terminated
    /\ UNCHANGED <<pdfDoc, systemId, contentTypes, pageRange, useOCR, ocrEnabled,
                   runText, results, warnings, nextType>>
    /\ UNCHANGED notRunVars

\* the loop is over: return this.results
ProcessReturn ==
    /\ runPc = "loop"
    /\ nextType > Len(contentTypes)
    /\ runPc' = "returned"
    /\ ocrWorker' = Terminated
    /\ UNCHANGED <<pdfDoc, systemId, contentTypes, pageRange, useOCR, ocrEnabled,
                   runText, results, warnings, nextType, failedType>>
    /\ UNCHANGED notRunVars

(***************************************************************************)
(* PDFExtractorApp: the submit handler and _processPDF.  Every requested   *)
(* category's extraction is started before any of them is awaited; the     *)
(* callback of an extraction that fulfils stores its result, and           *)
(* Promise.all settles with the first rejection or the last fulfilment.    *)
(***************************************************************************)
\* the times the form is submitted
MaxSubmissions == 2

\* the most content types ticked in a submission
MaxTicked == 2

\* the most content types ticked in a submission after the first
MaxTickedAgain == 1

ReversedRangeStr == <<"2", "-", "1">>

\* the strings typed in the page range field
PageRangeStrs ==
    {<<>>, <<" ">>, <<"2">>, <<"1", "-", "2">>, <<"1", " ", "-", " ", "2">>,
     ReversedRangeStr, <<"0">>, <<"0", "-", "2">>, <<"2", "-">>, <<"x">>}

RECURSIVE FindBlocksFrom(_, _, _)
\* the while loop of _find*Blocks with the regex's lastIndex at from
FindBlocksFrom(loc, t, from) ==
    LET m == StartMatch(loc, t, from)
    IN  IF m = NoMatch THEN <<>>
        ELSE <<BlockText(t, Span(t, m.index, BlockEndPos(loc, t, m.index)))>>
                 \o FindBlocksFrom(loc, t, m.end)

\* _findMonsterBlocks, _findRaceBlocks, _findTraitBlocks, _findFeatBlocks,
\* _findRollTableBlocks
FindBlocks(loc, t) == FindBlocksFrom(loc, t, 0)

RECURSIVE ParseBlocks(_, _)
\* for (const block of blocks): the records of the blocks the parser
\* accepts, without their identifiers
ParseBlocks(p, bs) ==
    IF bs = <<>> THEN <<>>
    ELSE ParseBlock(p, Head(bs)) \o ParseBlocks(p, Tail(bs))

\* the pageRange an extractor hands to extractText: extractMonsters takes no
\* parameter and calls this.extractText(), the extractors of
\* content-extractors.js pass their pageRange on
TextRange(category, range) == IF category = "monsters" THEN <<>> ELSE range

\* extractMonsters, extractRaces, extractTraits, extractFeats,
\* extractRollTables: what the extraction returns when no page read fails,
\* the records without their identifiers
ExtractCategory(category, doc, range) ==
    ParseBlocks(category,
        FindBlocks(category, ExtractText(doc, TextRange(category, range))))

\* what _createCompendiums puts in the folder of each category: the stored
\* result when it is set and not empty
CreateCompendiums(stored) ==
    [c \in AppContentTypes |->
        IF stored[c] # <<>> /\ stored[c][1] # <<>> THEN stored[c][1] ELSE <<>>]

\* folders.items, folders.spells, folders.feats in the order of the || chain
ItemFolders == <<"items", "spells", "feats">>

\* folders.races, folders.traits, folders.glossary, folders.adventures in
\* the order of the || chain
JournalFolders == <<"races", "traits", "glossary", "adventures">>

\* folders.<c> is set: _createCompendiums made the folder of c, which it
\* does when the result of c is not empty
FolderExists(inFolder, c) == c \in DOMAIN inFolder /\ inFolder[c] # <<>>

\* folders.a?.id || folders.b?.id || ...: <<>> when no folder of the chain
\* exists, or <<the first that does>>
FirstFolder(inFolder, chain) ==
    LET S == {n \in 1..Len(chain) : FolderExists(inFolder, chain[n])}
    IN  IF S = {} THEN <<>> ELSE <<chain[Min(S)]>>

\* _createCompendiumsFromFolders(folders, pdfName): what is imported into
\* each pack, inFolder[c] being the entries in the folder of category c
CreateCompendiumsFromFolders(inFolder) ==
    LET items == FirstFolder(inFolder, ItemFolders)
        journals == FirstFolder(inFolder, JournalFolders)
    IN  [p \in PackTypes |->
            CASE p = "Actor" -> IF FolderExists(inFolder, "monsters")
                                THEN inFolder["monsters"] ELSE <<>>
              [] p = "Item" -> IF items # <<>> THEN inFolder[items[1]] ELSE <<>>
              [] p = "JournalEntry" -> IF journals # <<>> THEN inFolder[journals[1]] ELSE <<>>
              [] p = "RollTable" -> IF FolderExists(inFolder, "rolltables")
                                    THEN inFolder["rolltables"] ELSE <<>>]

\* the constructor of PDFExtractorApp, and a file chosen in the form
InitApp ==
    /\ appPdfDoc \in {doc \in Documents : \A n \in 1..Len(doc) : Len(doc[n]) <= MaxAppPageLen}
    /\ pageRangeStr = <<>>
    /\ appPageRange = <<>>
    /\ appContentTypes = {}
    /\ promises = [c \in AppContentTypes |-> "none"]
    /\ appResults = [c \in AppContentTypes |-> <<>>]
    /\ imported = [c \in AppContentTypes |-> <<>>]
    /\ packs = [p \in PackTypes |-> <<>>]
    /\ notification = "none"
    /\ submissions = 0
    /\ appPc = "form"

\* _onSubmit up to the await of Promise.all in _processPDF
OnSubmit ==
    /\ appPc \in {"form", "success", "error"}
    /\ submissions < MaxSubmissions
    /\ \A c \in AppContentTypes : promises[c] # "pending"
    /\ submissions' = submissions + 1
    /\ \E types \in {s \in SUBSET AppContentTypes : Cardinality(s) <= MaxTicked},
          rangeStr \in PageRangeStrs, loaded \in BOOLEAN :
           \* a submission after the first leaves the page range field as it is
           /\ submissions > 0 =>
                  Cardinality(types) <= MaxTickedAgain /\ rangeStr = pageRangeStr
           /\ IF types = {}
              THEN \* no content type is ticked: an error is shown and the handler returns
                   /\ notification' = "error"
                   /\ UNCHANGED <<pageRangeStr, appPageRange, appContentTypes, promises, appPc>>
              ELSE /\ pageRangeStr' = rangeStr
                   /\ appPageRange' = ParsePageRange(rangeStr)
                   /\ appContentTypes' = types
                   /\ IF loaded
                      THEN \* _initializeExtractors, then _processPDF starts the extractions
                           /\ promises' = [c \in AppContentTypes |->
                                              IF c \in types THEN "pending" ELSE "none"]
                           /\ notification' = "processing"
                           /\ appPc' = "extracting"
                      ELSE \* loadPDF fails in _initializeExtractors: the catch clause
                           /\ promises' = [c \in AppContentTypes |-> "none"]
                           /\ notification' = "error"
                           /\ appPc' = "error"
    /\ UNCHANGED <<appPdfDoc, appResults, imported, packs>>
    /\ UNCHANGED notAppVars

\* a callback of one key for every category
SharedResultsKey(category) == "monsters"

\* .then(result => { this.results.<category> = result; }): the key of
\* this.results the callback of a category's extraction assigns
ResultsKey(category) == category

\* the extraction of a category fulfils and its callback stores the result;
\* when it is the last one of a Promise.all that has not rejected,
\* _processPDF goes on to _createCompendiums and the submit handler succeeds
ExtractionFulfils ==
    \E c \in AppContentTypes :
        /\ promises[c] = "pending"
        /\ promises' = [promises EXCEPT ![c] = "fulfilled"]
        /\ \E records \in {ExtractCategory(c, appPdfDoc, appPageRange)} :
               \E uuids \in [1..Len(records) -> GenerateUUID] :
                   appResults' = [appResults EXCEPT
                       ![ResultsKey(c)] = << [n \in 1..Len(records) |->
                                    Identified(c, <<records[n]>>, uuids[n])[1]] >>]
        /\ IF appPc = "extracting" /\ \A d \in appContentTypes : promises'[d] = "fulfilled"
           THEN /\ imported' = CreateCompendiums(appResults')
                /\ packs' = CreateCompendiumsFromFolders(imported')
                /\ notification' = "info"
                /\ appPc' = "success"
           ELSE UNCHANGED <<imported, packs, notification, appPc>>
        /\ UNCHANGED <<appPdfDoc, pageRangeStr, appPageRange, appContentTypes, submissions>>
        /\ UNCHANGED notAppVars

\* a page read fails in the extraction of a category (extractText logs the
\* error and rethrows): its promise rejects, and so does Promise.all if it
\* has not yet; _processPDF throws and the catch clause of the submit
\* handler shows the error
ExtractionRejects ==
    \E c \in AppContentTypes :
        /\ promises[c] = "pending"
        /\ PageNumbers(TextRange(c, appPageRange), Len(appPdfDoc)) # <<>>
        /\ promises' = [promises EXCEPT ![c] = "rejected"]
        /\ IF appPc = "extracting"
           THEN /\ notification' = "error"
                /\ appPc' = "error"
           ELSE UNCHANGED <<notification, appPc>>
        /\ UNCHANGED <<appPdfDoc, pageRangeStr, appPageRange, appContentTypes,
                       appResults, imported, packs, submissions>>
        /\ UNCHANGED notAppVars

\* a run of one of the two dispatchers
InitDispatch ==
    /\ previous = <<>>
    /\ ServerIdle
    /\ LocateIdle
    /\ ParseIdle
    /\ ExtractIdle
    /\ \/ InitRun /\ AppIdle
       \/ RunIdle /\ InitApp

NextDispatch ==
    \/ ProcessObtainText
    \/ ProcessTextFails
    \/ ProcessContentType
    \/ ProcessContentTypeThrows
    \/ ProcessReturn
    \/ OnSubmit
    \/ ExtractionFulfils
    \/ ExtractionRejects

SpecDispatch == InitDispatch /\ [][NextDispatch]_vars

(***************************************************************************)
(* The extract method of a category: extractMonsters, extractRaces,        *)
(* extractTraits, extractFeats, extractRollTables.  It reads the text,     *)
(* locates the blocks and loops over them; a block the parser accepts is   *)
(* handed to saveJSON, and pushed on the results once saveJSON has         *)
(* resolved.  There is no try around the await: when saveJSON throws, the  *)
(* extract method throws.                                                  *)
(***************************************************************************)
\* one more saveJSON call retried after it
SaveJSONRetried(calls, data) == Append(Append(calls, data), data)

\* await this.saveJSON(data, ...): the calls made so far and this one
SaveJSON(calls, data) == Append(calls, data)

\* a record pushed twice
PushTwice(list, data) == Append(Append(list, data), data)

\* results.push(data)
Push(list, data) == Append(list, data)

InitExtract ==
    /\ previous = <<>>
    /\ ServerIdle
    /\ LocateIdle
    /\ ParseIdle
    /\ RunIdle
    /\ AppIdle
    /\ extractor \in RegexLocators
    /\ extBlocks = <<>>
    /\ extNext = 1
    /\ saveCalls = <<>>
    /\ extResults = <<>>
    /\ extPc = "start"

\* const text = await this.extractText(...); the locator is run on it
ExtractFindBlocks ==
    /\ extPc = "start"
    /\ \E t \in Texts(extractor) : extBlocks' = FindBlocks(extractor, t)
    /\ extPc' = "loop"
    /\ UNCHANGED <<extractor, extNext, saveCalls, extResults>>
    /\ UNCHANGED notExtVars

\* one iteration of the for loop up to the await: the block is parsed; a
\* rejected block (null) is passed over, an accepted one is given to saveJSON
ExtractParseBlock ==
    /\ extPc = "loop"
    /\ extNext <= Len(extBlocks)
    /\ \E uuid \in GenerateUUID :
           LET data == Identified(extractor, ParseBlock(extractor, extBlocks[extNext]), uuid)
           IN  IF data = <<>>
               THEN /\ extNext' = extNext + 1
                    /\ UNCHANGED <<saveCalls, extPc>>
               ELSE /\ saveCalls' = SaveJSON(saveCalls, data[1])
                    /\ extPc' = "saving"
                    /\ UNCHANGED extNext
    /\ UNCHANGED <<extractor, extBlocks, extResults>>
    /\ UNCHANGED notExtVars

\* saveJSON resolves: results.push(data), and the loop goes on
SaveJSONResolves ==
    /\ extPc = "saving"
    /\ extResults' = Push(extResults, saveCalls[Len(saveCalls)])
    /\ extNext' = extNext + 1
    /\ extPc' = "loop"
    /\ UNCHANGED <<extractor, extBlocks, saveCalls>>
    /\ UNCHANGED notExtVars

\* saveJSON throws (game is not defined, or _ensureFolder rejects): the
\* await throws and so does the extract method
SaveJSONRejects ==
    /\ extPc = "saving"
    /\ extPc' = "thrown"
    /\ UNCHANGED <<extractor, extBlocks, extNext, saveCalls, extResults>>
    /\ UNCHANGED notExtVars

\* the loop is over: return results
ExtractReturn ==
    /\ extPc = "loop"
    /\ extNext > Len(extBlocks)
    /\ extPc' = "returned"
    /\ UNCHANGED <<extractor, extBlocks, extNext, saveCalls, extResults>>
    /\ UNCHANGED notExtVars

NextExtract ==
    \/ ExtractFindBlocks
    \/ ExtractParseBlock
    \/ SaveJSONResolves
    \/ SaveJSONRejects
    \/ ExtractReturn

SpecExtract == InitExtract /\ [][NextExtract]_vars

(***************************************************************************)
(* The server API: handleSocketRequest, handleBrowseRequest,               *)
(* handleFetchRequest and isValidPath, of server-api.js and of part_001,   *)
(* and the HTTP routes of registerAPIRoutes.                               *)
(***************************************************************************)
DataLit == <<"d", "a", "t", "a">>

DataSlashLit == <<"d", "a", "t", "a", "/">>

SlashLit == <<"/">>

DotLit == <<".">>

DotDotLit == <<".", ".">>

PdfLit == <<".", "p", "d", "f">>

\* str.includes(lit)
Includes(t, lit) == \E i \in 0..Len(t) : MatchesAt(t, i, lit)

\* str.startsWith(lit)
StartsWith(t, lit) == MatchesAt(t, 0, lit)

\* path.replace(/^\//, ''), and path.substring(1) when path.startsWith('/')
StripLeadingSlash(path) ==
    IF StartsWith(path, SlashLit) THEN Substring(path, 1, Len(path)) ELSE path

\* isValidPath(path)
IsValidPath(path) ==
    LET normalizedPath == StripLeadingSlash(path)
    IN  IF Includes(path, DotDotLit) THEN FALSE
        ELSE IF ~StartsWith(normalizedPath, DataSlashLit) /\ normalizedPath # DataLit
             THEN FALSE
        ELSE IF path = <<>> \/ Trim(path) = <<>> THEN FALSE
        ELSE TRUE

\* path.includes('.') && !path.toLowerCase().endsWith('.pdf')
NotPdfFile(path) ==
    Includes(path, DotLit) /\ ~MatchesAtIgnoreCase(path, Len(path) - Len(PdfLit), PdfLit)

\* the paths requests carry
RequestPaths ==
    {<<>>, DataLit, <<"/">> \o DataLit, <<"/", "/">> \o DataLit,
     DataSlashLit \o <<"a">> \o PdfLit,
     <<"/", "/">> \o DataSlashLit \o <<"a">> \o PdfLit,
     DataSlashLit \o <<"a", ".", "t", "x", "t">>,
     DataSlashLit \o DotDotLit, DataLit \o <<"s", "e", "t">>, <<"x">>}

\* data.path: <<>> when the request carries none
PathOptions == {<<>>} \cup {<<p>> : p \in RequestPaths}

\* the users a socket message comes from; game.users.get gives nothing
\* for "unknown"
Users == {"gm", "player", "unknown"}

\* data.action
SocketActions == {"browse", "fetch", "extractPDF", "other"}

\* a handler returns { success: false, error } without a call
Refuse(error) ==
    /\ fsCalls' = <<>>
    /\ response' = <<[success |-> FALSE, error |-> error]>>
    /\ srvPc' = "responded"

\* handleBrowseRequest(data) up to the await of FilePicker.browse, or to
\* its return
HandleBrowseRequest(pathOpt) ==
    LET given == IF pathOpt = <<>> \/ pathOpt[1] = <<>> THEN DataLit ELSE pathOpt[1]
        path == StripLeadingSlash(given)
    IN  /\ handler' = "browse"
        /\ IF ~IsValidPath(path) THEN Refuse("Invalid path")
           ELSE IF NotPdfFile(path) THEN Refuse("Selected file is not a PDF")
           ELSE /\ fsCalls' = <<[api |-> "FilePicker.browse", path |-> path]>>
                /\ response' = <<>>
                /\ srvPc' = "browsing"

\* handleFetchRequest(data) up to the await of FilePicker.getAbsoluteURL,
\* or to its return; path.startsWith of a missing path is a TypeError the
\* catch clause turns into a failure
HandleFetchRequest(pathOpt) ==
    LET path == StripLeadingSlash(pathOpt[1])
    IN  /\ handler' = "fetch"
        /\ IF pathOpt = <<>> THEN Refuse("TypeError")
           ELSE IF ~IsValidPath(path) THEN Refuse("Invalid path")
           ELSE IF NotPdfFile(path) THEN Refuse("Selected file is not a PDF")
           ELSE /\ fsCalls' = <<[api |-> "FilePicker.getAbsoluteURL", path |-> path]>>
                /\ response' = <<>>
                /\ srvPc' = "resolving"

\* handleExtractPDFRequest(data) up to the await in processPDFWithPython
HandleExtractPDFRequest ==
    /\ handler' = "extractPDF"
    /\ fsCalls' = <<[api |-> "processPDFWithPython", path |-> <<"t", "e", "m", "p", "/">>]>>
    /\ response' = <<>>
    /\ srvPc' = "python"

InitServer ==
    /\ previous = <<>>
    /\ LocateIdle
    /\ ParseIdle
    /\ RunIdle
    /\ AppIdle
    /\ ExtractIdle
    /\ serverFile \in {"server-api.js", "part_001"}
    /\ request = <<>>
    /\ handler = "none"
    /\ fsCalls = <<>>
    /\ response = <<>>
    /\ srvPc = "idle"

\* handleSocketRequest: of server-api.js with the user test, of part_001
\* without one
HandleSocketRequest ==
    /\ srvPc \in {"idle", "responded"}
    /\ \E userId \in Users, action \in SocketActions, pathOpt \in PathOptions :
           /\ request' = <<[via |-> "socket", user |-> userId, action |-> action,
                            path |-> pathOpt]>>
           /\ IF serverFile = "server-api.js"
              THEN IF userId # "gm"
                   THEN handler' = "none" /\ Refuse("Unauthorized")
                   ELSE CASE action = "browse" -> HandleBrowseRequest(pathOpt)
                          [] action = "fetch" -> HandleFetchRequest(pathOpt)
                          [] OTHER -> handler' = "none" /\ Refuse("Invalid action")
              ELSE CASE action = "browse" -> HandleBrowseRequest(pathOpt)
                     [] action = "fetch" -> HandleFetchRequest(pathOpt)
                     [] action = "extractPDF" -> HandleExtractPDFRequest
                     [] OTHER -> handler' = "none" /\ Refuse("Unknown action")
    /\ UNCHANGED serverFile
    /\ UNCHANGED notSrvVars

\* the routes .../api/browse and .../api/fetch of registerAPIRoutes
HandleRoute ==
    /\ srvPc \in {"idle", "responded"}
    /\ \E route \in {"browse", "fetch"}, pathOpt \in PathOptions :
           /\ request' = <<[via |-> "http", user |-> "none", action |-> route,
                            path |-> pathOpt]>>
           /\ IF route = "browse" THEN HandleBrowseRequest(pathOpt)
              ELSE HandleFetchRequest(pathOpt)
    /\ UNCHANGED serverFile
    /\ UNCHANGED notSrvVars

\* FilePicker.browse settles: the listing is returned, or the catch clause
\* returns the failure
BrowseSettles ==
    /\ srvPc = "browsing"
    /\ \E ok \in BOOLEAN :
           response' = <<[success |-> ok, error |-> IF ok THEN "" ELSE "browse failed"]>>
    /\ srvPc' = "responded"
    /\ UNCHANGED <<serverFile, request, handler, fsCalls>>
    /\ UNCHANGED notSrvVars

\* FilePicker.getAbsoluteURL resolves and fetch(fileUrl) is called
GetAbsoluteURLResolves ==
    /\ srvPc = "resolving"
    /\ fsCalls' = Append(fsCalls, [api |-> "fetch", path |-> fsCalls[1].path])
    /\ srvPc' = "fetching"
    /\ UNCHANGED <<serverFile, request, handler, response>>
    /\ UNCHANGED notSrvVars

\* FilePicker.getAbsoluteURL rejects: the catch clause returns the failure
GetAbsoluteURLRejects ==
    /\ srvPc = "resolving"
    /\ response' = <<[success |-> FALSE, error |-> "no URL"]>>
    /\ srvPc' = "responded"
    /\ UNCHANGED <<serverFile, request, handler, fsCalls>>
    /\ UNCHANGED notSrvVars

\* fetch settles: the blob is returned when response.ok, and the catch
\* clause returns the failure otherwise
FetchSettles ==
    /\ srvPc = "fetching"
    /\ \E ok \in BOOLEAN :
           response' = <<[success |-> ok, error |-> IF ok THEN "" ELSE "Failed to fetch file"]>>
    /\ srvPc' = "responded"
    /\ UNCHANGED <<serverFile, request, handler, fsCalls>>
    /\ UNCHANGED notSrvVars

\* processPDFWithPython resolves and handleExtractPDFRequest returns
ProcessPDFWithPythonResolves ==
    /\ srvPc = "python"
    /\ response' = <<[success |-> TRUE, error |-> ""]>>
    /\ srvPc' = "responded"
    /\ UNCHANGED <<serverFile, request, handler, fsCalls>>
    /\ UNCHANGED notSrvVars

NextServer ==
    \/ HandleSocketRequest
    \/ HandleRoute
    \/ BrowseSettles
    \/ GetAbsoluteURLResolves
    \/ GetAbsoluteURLRejects
    \/ FetchSettles
    \/ ProcessPDFWithPythonResolves

SpecServer == InitServer /\ [][NextServer]_vars

\* the records of a list with the identifier field taken off
WithoutIdentifiers(records) ==
    [n \in 1..Len(records) |->
        IF "identifier" \in DOMAIN records[n]
        THEN [f \in DOMAIN records[n] \ {"identifier"} |-> records[n][f]]
        ELSE records[n]]

(***************************************************************************)
(* C1: in a single locator pass, any two blocks emitted one after the      *)
(* other satisfy end(earlier) <= start(later): the spans are disjoint and  *)
(* in ascending start order.                                               *)
(***************************************************************************)
C1_BlocksDisjointAndOrdered ==
    \A n \in 1..(Len(blocks) - 1) : blocks[n].end <= blocks[n + 1].start

(***************************************************************************)
(* C2: category isolation.  When the processing of one requested category *)
(* has thrown and the run has come to its end, that category is recorded   *)
(* with an empty result list and every other requested category has the    *)
(* records its extraction yields, returned (unified processor) or stored   *)
(* and imported (application).                                             *)
(***************************************************************************)
C2_CategoryIsolation ==
    /\ (runPc \in {"returned", "thrown"} /\ failedType # <<>>) =>
           /\ runPc = "returned"
           /\ \A n \in 1..Len(contentTypes) :
                  results[contentTypes[n]] =
                      IF contentTypes[n] = failedType[1] THEN << <<>> >>
                      ELSE << ExtractContentByType(contentTypes[n], runText[1],
                                                   GetSystemConfigById(systemId)) >>
    /\ (/\ appPc \in {"success", "error"}
        /\ \A c \in AppContentTypes : promises[c] # "pending"
        /\ \E c \in AppContentTypes : promises[c] = "rejected") =>
           \A c \in appContentTypes :
               IF promises[c] = "rejected" THEN appResults[c] = << <<>> >>
               ELSE /\ appResults[c] # <<>>
                    /\ WithoutIdentifiers(appResults[c][1]) =
                           ExtractCategory(c, appPdfDoc, appPageRange)
                    /\ WithoutIdentifiers(imported[c]) =
                           ExtractCategory(c, appPdfDoc, appPageRange)

(***************************************************************************)
(* C3: once the text has been obtained, a run of process never ends by     *)
(* throwing: it reaches the return of the results.                         *)
(***************************************************************************)
C3_NoThrowOnceTextObtained ==
    runText # <<>> => runPc # "thrown"

(***************************************************************************)
(* C4: a page range with end < start is an error and no category is        *)
(* processed: extractText returns no text for it, and the submit path      *)
(* starts no extraction for it.                                            *)
(***************************************************************************)
C4_ReversedRangeIsError ==
    /\ (/\ pageRange # <<>>
        /\ pageRange[1].end < pageRange[1].start
        /\ ~(useOCR /\ ocrEnabled)) =>
           /\ runText = <<>>
           /\ runPc \notin {"loop", "returned"}
    /\ pageRangeStr = ReversedRangeStr =>
           /\ \A c \in AppContentTypes : promises[c] = "none"
           /\ appPc \notin {"extracting", "success"}

(***************************************************************************)
(* C5: a record returned by any category parser has a name that is         *)
(* non-empty and equal to its own trimmed value.                           *)
(***************************************************************************)
C5_NameNonEmptyAndTrimmed ==
    (parsePc = "done" /\ parsed # <<>>) =>
        /\ parsed[1].name # <<>>
        /\ Trim(parsed[1].name) = parsed[1].name

(***************************************************************************)
(* C6: no record returned by the trait, feat or roll-table parser carries  *)
(* a substituted placeholder name ('Unknown Trait', 'Unknown Feat',        *)
(* 'Unknown Table').                                                       *)
(***************************************************************************)
C6_NoPlaceholderName ==
    (parsePc = "done" /\ parser \in {"traits", "feats", "rolltables"} /\ parsed # <<>>) =>
        parsed[1].name \notin {UnknownTraitLit, UnknownFeatLit, UnknownTableLit}

\* the decimal numeral of a face below 100
C7_Decimal(n) ==
    LET numerals == <<"0", "1", "2", "3", "4", "5", "6", "7", "8", "9">>
    IN  IF n < 10 THEN <<numerals[n + 1]>>
        ELSE <<numerals[(n \div 10) + 1], numerals[(n % 10) + 1]>>

\* the die faces a body line is written with
C7_Faces == 1..11

\* line is written as prefix followed by a result text: one or more
\* characters, with no white space at either end
C7_HasPrefix(line, prefix) ==
    /\ Len(line) > Len(prefix)
    /\ SubSeq(line, 1, Len(prefix)) = prefix
    /\ line[Len(prefix) + 1] \notin SpaceChars
    /\ line[Len(line)] \notin SpaceChars

C7_RangePrefix(a, b) == C7_Decimal(a) \o <<"-">> \o C7_Decimal(b) \o <<" ">>

C7_SinglePrefix(a) == C7_Decimal(a) \o <<" ">>

\* one entry [r,r] for each face r of a..b, in ascending order, all with
\* the text that follows the prefix
C7_Expected(a, b, line, prefix) ==
    [n \in 1..(b - a + 1) |->
        [range |-> <<a + n - 1, a + n - 1>>,
         text |-> SubSeq(line, Len(prefix) + 1, Len(line))]]

\* the results are those of the lines before line i, then expected, then
\* those of the lines after line i
C7_ContributesAt(lines, i, expected) ==
    parsed[1].results = TableEntries(SubSeq(lines, 3, i - 1)) \o expected
                            \o TableEntries(SubSeq(lines, i + 1, Len(lines)))

(***************************************************************************)
(* C7: in every accepted roll-table block, a body line 'a-b text' with     *)
(* a <= b contributes exactly the entries [a,a], ..., [b,b] in ascending   *)
(* order, each with that text, a body line 'a text' contributes exactly    *)
(* the entry [a,a], entries appear in line order, and every entry has      *)
(* rangeStart = rangeEnd.                                                  *)
(***************************************************************************)
C7_RollTableExpansion ==
    (parsePc = "done" /\ parser = "rolltables" /\ parsed # <<>>) =>
        LET lines == Split(parseInput)
            entries == parsed[1].results
        IN  /\ \A n \in 1..Len(entries) : entries[n].range[1] = entries[n].range[2]
            /\ \A i \in 3..Len(lines) :
                   /\ \A a \in C7_Faces : \A b \in C7_Faces :
                          (a <= b /\ C7_HasPrefix(lines[i], C7_RangePrefix(a, b))) =>
                              C7_ContributesAt(lines, i,
                                  C7_Expected(a, b, lines[i], C7_RangePrefix(a, b)))
                   /\ \A a \in C7_Faces :
                          C7_HasPrefix(lines[i], C7_SinglePrefix(a)) =>
                              C7_ContributesAt(lines, i,
                                  C7_Expected(a, a, lines[i], C7_SinglePrefix(a)))

\* the table 'Wandering Monsters Table' / 'd6' with the lines
\* '1-2 Goblin scout', '3 Ogre', '4-6 Nothing' has been parsed into six entries
C7_WanderingMonstersParsed ==
    /\ parsePc = "done"
    /\ parser = "rolltables"
    /\ parseInput = <<"W", "a", "n", "d", "e", "r", "i", "n", "g", " ", "M", "o", "n", "s", "t", "e", "r", "s", " ", "T", "a", "b", "l", "e", "\n", "d", "6", "\n", "1", "-", "2", " ", "G", "o", "b", "l", "i", "n", " ", "s", "c", "o", "u", "t", "\n", "3", " ", "O", "g", "r", "e", "\n", "4", "-", "6", " ", "N", "o", "t", "h", "i", "n", "g">>
    /\ parsed # <<>>
    /\ parsed[1].results =
        << [range |-> <<1, 1>>, text |-> <<"G", "o", "b", "l", "i", "n", " ", "s", "c", "o", "u", "t">>],
           [range |-> <<2, 2>>, text |-> <<"G", "o", "b", "l", "i", "n", " ", "s", "c", "o", "u", "t">>],
           [range |-> <<3, 3>>, text |-> <<"O", "g", "r", "e">>],
           [range |-> <<4, 4>>, text |-> <<"N", "o", "t", "h", "i", "n", "g">>],
           [range |-> <<5, 5>>, text |-> <<"N", "o", "t", "h", "i", "n", "g">>],
           [range |-> <<6, 6>>, text |-> <<"N", "o", "t", "h", "i", "n", "g">>] >>

(***************************************************************************)
(* C8: in every roll-table record the result ranges are pairwise           *)
(* non-overlapping: no face r is the range [r,r] of two different entries. *)
(***************************************************************************)
C8_RangesNonOverlapping ==
    (parsePc = "done" /\ parser = "rolltables" /\ parsed # <<>>) =>
        LET entries == parsed[1].results
        IN  \A m \in 1..Len(entries) : \A n \in 1..Len(entries) :
                m # n => entries[m].range # entries[n].range

\* line, with surrounding white space removed, is as a whole an integer,
\* optionally '-' and a second integer, a space, then text
C9_WholeLineForm(rawLine) ==
    LET line == Trim(rawLine)
        j == RunEnd(line, 0, Digits)
        k == RunEnd(line, j + 1, Digits)
    IN  /\ line # <<>>
        /\ j > 0
        /\ \/ j + 1 < Len(line) /\ At(line, j) = " "
           \/ /\ j + 1 < Len(line) /\ At(line, j) = "-" /\ k > j + 1
              /\ k + 1 < Len(line) /\ At(line, k) = " "

(***************************************************************************)
(* C9: a non-empty body line that is not, as a whole line, of the form     *)
(* 'start[-end] text' contributes no entry: the table is emitted with the  *)
(* entries of the well-formed lines only.                                  *)
(***************************************************************************)
C9_MalformedLineSkipped ==
    (parsePc = "done" /\ parser = "rolltables" /\ parsed # <<>>) =>
        LET lines == Split(parseInput)
            body == SubSeq(lines, 3, Len(lines))
        IN  parsed[1].results = TableEntries(SelectSeq(body, C9_WholeLineForm))

(***************************************************************************)
(* C10: every numeric field of an emitted monster or spell record is an    *)
(* integer: a level that does not parse as an integer falls back to 0 and  *)
(* is never NaN.                                                           *)
(***************************************************************************)
C10_NumericFieldsAreIntegers ==
    /\ (parsePc = "done" /\ parser = "spells" /\ parsed # <<>>) =>
           parsed[1].level # NaN
    /\ (parsePc = "done" /\ parser = "monsters" /\ parsed # <<>>) =>
           /\ parsed[1].ac # NaN
           /\ parsed[1].hp # NaN
           /\ parsed[1].speed # NaN

\* the literal lit occurs somewhere in t
C11_Occurs(t, lit) ==
    \E n \in 1..(Len(t) - Len(lit) + 1) : SubSeq(t, n, n + Len(lit) - 1) = lit

(***************************************************************************)
(* C11: every record returned by the monster and the spell parser has all  *)
(* its fields, and a field whose pattern does not match holds the          *)
(* category's default: size 'Medium', type 'unknown', alignment            *)
(* 'unaligned', ac 10, hp 10, speed 30; level 0, school 'unknown', casting *)
(* time '1 action', range 'Self', components 'V, S', duration              *)
(* 'Instantaneous'.                                                        *)
(***************************************************************************)
C11_DefaultsSubstituted ==
    LET secondLine == Split(parseInput)[2]
    IN  /\ (parsePc = "done" /\ parser = "monsters" /\ parsed # <<>>) =>
               /\ DOMAIN parsed[1] = {"name", "type", "size", "alignment", "ac", "hp", "speed"}
               /\ ~C11_Occurs(secondLine, <<",", " ">>) =>
                      /\ parsed[1].size = <<"M", "e", "d", "i", "u", "m">>
                      /\ parsed[1].type = <<"u", "n", "k", "n", "o", "w", "n">>
                      /\ parsed[1].alignment = <<"u", "n", "a", "l", "i", "g", "n", "e", "d">>
               /\ ~C11_Occurs(parseInput, <<"A", "C", " ">>) => parsed[1].ac = 10
               /\ ~C11_Occurs(parseInput, <<"H", "P", " ">>) => parsed[1].hp = 10
               /\ ~C11_Occurs(parseInput, <<"S", "p", "e", "e", "d", " ">>) => parsed[1].speed = 30
        /\ (parsePc = "done" /\ parser = "spells" /\ parsed # <<>>) =>
               /\ DOMAIN parsed[1] = {"name", "level", "school", "casting_time", "range",
                                      "components", "duration", "description"}
               /\ ~C11_Occurs(secondLine, <<"-", "l", "e", "v", "e", "l", " ">>) =>
                      /\ parsed[1].level = 0
                      /\ parsed[1].school = <<"u", "n", "k", "n", "o", "w", "n">>
               /\ ~C11_Occurs(parseInput, <<"C", "a", "s", "t", "i", "n", "g", " ", "T", "i", "m", "e", ":", " ">>) =>
                      parsed[1].casting_time = <<"1", " ", "a", "c", "t", "i", "o", "n">>
               /\ ~C11_Occurs(parseInput, <<"R", "a", "n", "g", "e", ":", " ">>) =>
                      parsed[1].range = <<"S", "e", "l", "f">>
               /\ ~C11_Occurs(parseInput, <<"C", "o", "m", "p", "o", "n", "e", "n", "t", "s", ":", " ">>) =>
                      parsed[1].components = <<"V", ",", " ", "S">>
               /\ ~C11_Occurs(parseInput, <<"D", "u", "r", "a", "t", "i", "o", "n", ":", " ">>) =>
                      parsed[1].duration = <<"I", "n", "s", "t", "a", "n", "t", "a", "n", "e", "o", "u", "s">>

\* the monster block 'Goblin', 'beast', 'HP 20', 'x', 'x', with no type
\* line, no AC and no Speed, was parsed
C11_DefaultsTaken ==
    /\ parsePc = "done"
    /\ parsed # <<>>
    /\ parser = "monsters"
    /\ parseInput = <<"G", "o", "b", "l", "i", "n", "\n", "b", "e", "a", "s", "t", "\n",
                      "H", "P", " ", "2", "0", "\n", "x", "\n", "x">>
    /\ parsed[1].type = <<"u", "n", "k", "n", "o", "w", "n">>
    /\ parsed[1].ac = 10 /\ parsed[1].hp = 20 /\ parsed[1].speed = 30

(***************************************************************************)
(* C12: every creature record of UnifiedPDFProcessor has the same complete *)
(* shape: attributes.ac, attributes.hp and the ability scores are present  *)
(* whether or not the profile has the pattern and the pattern matches.     *)
(***************************************************************************)
C12_CreatureShapeComplete ==
    results["monsters"] # <<>> =>
        \A n \in 1..Len(results["monsters"][1]) :
            LET data == results["monsters"][1][n].data
            IN  /\ data.ac # <<>>
                /\ data.hp # <<>>
                /\ data.abilities # <<>>

(***************************************************************************)
(* C13: getSystemConfigById returns a profile for every id: for a known id *)
(* (dnd5e, pf2e, wod, startrek, cityofmist) the profile whose id is the    *)
(* requested one, for every other id the base SystemConfig.                *)
(***************************************************************************)
C13_LookupTotal ==
    runPc # "idle" =>
        LET config == GetSystemConfigById(systemId)
        IN  /\ config \in {"generic", "dnd5e", "pf2e", "wod", "startrek", "cityofmist"}
            /\ systemId \in {"dnd5e", "pf2e", "wod", "startrek", "cityofmist"} =>
                   SystemConfigId(config) = systemId
            /\ systemId \notin {"dnd5e", "pf2e", "wod", "startrek", "cityofmist"} =>
                   config = "generic"

\* a run for an unknown system id returned a creature stamped with the id of
\* the base profile
C13_FallbackProfileUsed ==
    /\ runPc = "returned"
    /\ systemId = "nonexistent-system"
    /\ results["monsters"] # <<>>
    /\ results["monsters"][1] # <<>>
    /\ results["monsters"][1][1].system = "base"

(***************************************************************************)
(* C14: the base profile returned for an unknown system id has a non-empty *)
(* pattern set for the common content types: getExtractionPatterns never   *)
(* returns an empty object for 'monsters', 'items' or the journal types.   *)
(***************************************************************************)
C14_FallbackPatternsNonEmpty ==
    (runPc # "idle" /\ GetSystemConfigById(systemId) = "generic") =>
        \A n \in 1..(nextType - 1) :
            contentTypes[n] \in {"monsters", "items", "adventures", "glossary"} =>
                GetExtractionPatterns(GetSystemConfigById(systemId), contentTypes[n]) # {}

(***************************************************************************)
(* C15: for a requested content type the dispatcher does not support,      *)
(* process records an empty list under that id, logs a warning and does    *)
(* not throw; the remaining content types are still processed, and the     *)
(* keys of a returned result are exactly the requested ids.                *)
(***************************************************************************)
C15_UnsupportedTypeIsEmpty ==
    /\ \A n \in 1..(nextType - 1) :
           contentTypes[n] = "bogus" =>
               /\ results["bogus"] = << <<>> >>
               /\ "bogus" \in warnings
    /\ (runPc = "thrown" /\ runText # <<>>) =>
           /\ nextType <= Len(contentTypes)
           /\ contentTypes[nextType] # "bogus"
    /\ runPc = "returned" =>
           {c \in RunContentTypes : results[c] # <<>>} =
               {contentTypes[n] : n \in 1..Len(contentTypes)}

\* a run that requested 'bogus' and then 'monsters' returned the empty list
\* for the first and a creature for the second
C15_BogusThenMonstersReturned ==
    /\ runPc = "returned"
    /\ contentTypes = <<"bogus", "monsters">>
    /\ results["bogus"] = << <<>> >>
    /\ "bogus" \in warnings
    /\ results["monsters"] # <<>>
    /\ results["monsters"][1] # <<>>

(***************************************************************************)
(* C16: for a block that starts at s, if the locator's end delimiter       *)
(* occurs at or after s then the block ends at the start of the first such *)
(* occurrence; the maximum-span fallback is used only when there is none.  *)
(***************************************************************************)
C16_BlockEndsAtFirstDelimiter ==
    locator \in RegexLocators =>
        \A n \in 1..Len(blocks) :
            LET first == IndexOf(text, EndDelimiter(locator), blocks[n].start)
            IN  first # -1 => blocks[n].end = first

(***************************************************************************)
(* C17: when the page range typed in the form is a valid one, from start   *)
(* to end with 1 <= start <= end, the result stored for every category     *)
(* whose extraction has fulfilled is the list of records found in the text *)
(* of the pages start..min(end, numPages), and in no other text.           *)
(***************************************************************************)
C17_OnlyRequestedPages ==
    \A c \in AppContentTypes :
        (/\ appPageRange # <<>>
         /\ 1 <= appPageRange[1].start
         /\ appPageRange[1].start <= appPageRange[1].end
         /\ promises[c] = "fulfilled") =>
            WithoutIdentifiers(appResults[c][1]) =
                ParseBlocks(c, FindBlocks(c,
                    JoinPages(appPdfDoc,
                        [n \in 1..(Min({appPageRange[1].end, Len(appPdfDoc)})
                                       - appPageRange[1].start + 1) |->
                            appPageRange[1].start + n - 1],
                        <<NL>>)))

(***************************************************************************)
(* C18: a result belongs to the run that produced it.  When a submission   *)
(* has succeeded, every category _createCompendiums has created entities   *)
(* for is one that this submission requested: the result an earlier        *)
(* submission stored is not persisted again.                               *)
(***************************************************************************)
C18_ImportsOnlyThisRun ==
    appPc = "success" =>
        \A c \in AppContentTypes : imported[c] # <<>> => c \in appContentTypes

(***************************************************************************)
(* C19: within one run, every record of every category whose extraction    *)
(* has fulfilled carries an identifier, and no two of these records carry  *)
(* the same identifier.                                                    *)
(***************************************************************************)
C19_IdentifiersPresentAndUnique ==
    LET emitted == {c \in appContentTypes : promises[c] = "fulfilled"}
    IN  /\ \A c \in emitted : \A n \in 1..Len(appResults[c][1]) :
               "identifier" \in DOMAIN appResults[c][1][n]
        /\ \A c, d \in emitted :
               \A n \in 1..Len(appResults[c][1]), m \in 1..Len(appResults[d][1]) :
                   (/\ <<c, n>> # <<d, m>>
                    /\ "identifier" \in DOMAIN appResults[c][1][n]
                    /\ "identifier" \in DOMAIN appResults[d][1][m]) =>
                       appResults[c][1][n].identifier # appResults[d][1][m].identifier

(***************************************************************************)
(* C20: in an extract method, the saveJSON calls made so far are, in       *)
(* order, the records of the accepted blocks among the blocks the loop has *)
(* come to: one call for each accepted block, in block order, none for a   *)
(* rejected block, and no second call after a saveJSON call has failed.    *)
(***************************************************************************)
C20_SavedOncePerAcceptedBlock ==
    extPc \in {"loop", "saving", "returned", "thrown"} =>
        LET reached == IF extPc \in {"saving", "thrown"} THEN extNext ELSE extNext - 1
        IN  WithoutIdentifiers(saveCalls) =
                ParseBlocks(extractor, SubSeq(extBlocks, 1, reached))

\* an extract method has returned from a loop over three blocks, one of
\* them rejected and two accepted, each of the two saved once
C20_TwoSavedOneRejected ==
    /\ extPc = "returned"
    /\ Len(extBlocks) = 3
    /\ Len(saveCalls) = 2
    /\ extResults = saveCalls

(***************************************************************************)
(* C21: the extractions of a submission run concurrently.  In whatever     *)
(* order they fulfil, when the submission has succeeded every requested    *)
(* category has fulfilled and the results hold, under its own key, the     *)
(* records its extraction yields (identifiers aside), and these are what   *)
(* was imported for it; and _createCompendiums imports only in a step      *)
(* after which every requested category has fulfilled.                     *)
(***************************************************************************)
C21_CompletionOrderIrrelevant ==
    /\ [](appPc = "success" =>
             \A c \in appContentTypes :
                 /\ promises[c] = "fulfilled"
                 /\ appResults[c] # <<>>
                 /\ WithoutIdentifiers(appResults[c][1]) =
                        ParseBlocks(c, FindBlocks(c,
                            ExtractText(appPdfDoc,
                                IF c = "monsters" THEN <<>> ELSE appPageRange)))
                 /\ imported[c] = appResults[c][1])
    /\ [][imported' # imported =>
              \A c \in appContentTypes' : promises'[c] = "fulfilled"]_vars

\* a first submission has succeeded with two categories requested, each
\* holding one record
C21_TwoCategoriesStored ==
    /\ appPc = "success"
    /\ submissions = 1
    /\ appContentTypes = {"races", "traits"}
    /\ Len(appResults["races"][1]) = 1
    /\ Len(appResults["traits"][1]) = 1
    /\ Len(imported["races"]) = 1
    /\ Len(imported["traits"]) = 1

C23_AtMostOneRecordPerBlock ==
    /\ Len(extResults) <= Len(extBlocks)
    /\ \E f \in [1..Len(extResults) -> 1..Len(extBlocks)] :
           /\ \A i \in 1..(Len(extResults) - 1) : f[i] < f[i + 1]
           /\ \A i \in 1..Len(extResults) :
                  ParseBlock(extractor, extBlocks[f[i]]) =
                      <<WithoutIdentifiers(extResults)[i]>>

\* an extract method has returned one record for two located blocks
C23_FewerRecordsThanBlocks ==
    /\ extPc = "returned"
    /\ Len(extBlocks) = 2
    /\ Len(extResults) = 1

(***************************************************************************)
(* C24: round trip for feats.  However the block given to _parseFeatBlock  *)
(* reads as 'Feat: <name>\nPrerequisite: <prereq>\n<description>' with     *)
(* <name> a trimmed, non-empty string of the characters of [\w\s] and      *)
(* <prereq> one of the characters of [\w\s,], the record returned has the  *)
(* name <name> and the requirements <prereq>.                              *)
(***************************************************************************)
\* the field value s is trimmed, not empty, and made of the characters of
\* class, line breaks among them or not
C24_Field(s, class, lineBreaks) ==
    /\ s # <<>>
    /\ Trim(s) = s
    /\ \A k \in 1..Len(s) : s[k] \in class /\ (lineBreaks \/ s[k] # NL)

\* the round trip for every reading of the parsed block as a formatted feat
C24_RoundTrip(lineBreaks) ==
    (parser = "feats" /\ parsePc = "done") =>
        LET featLit == <<"F", "e", "a", "t", ":", " ">>
            prereqLit == <<"\n", "P", "r", "e", "r", "e", "q", "u", "i", "s", "i", "t", "e", ":", " ">>
        IN  \A i, j \in 0..Len(parseInput) :
                LET name == Substring(parseInput, Len(featLit), i)
                    prereq == Substring(parseInput, i + Len(prereqLit), j)
                IN  (/\ MatchesAt(parseInput, 0, featLit)
                     /\ Len(featLit) <= i
                     /\ MatchesAt(parseInput, i, prereqLit)
                     /\ i + Len(prereqLit) <= j
                     /\ j < Len(parseInput)
                     /\ At(parseInput, j) = NL
                     /\ C24_Field(name, WordSpace, lineBreaks)
                     /\ C24_Field(prereq, WordSpaceComma, lineBreaks)) =>
                        /\ parsed # <<>>
                        /\ parsed[1].name = name
                        /\ parsed[1].requirements = prereq

C24_FeatRoundTrip == C24_RoundTrip(TRUE)

(***************************************************************************)
(* C24 as amended: the round trip holds for every name and prerequisite    *)
(* string as above that contains no line break.                            *)
(***************************************************************************)
C24_FeatRoundTripOneLine == C24_RoundTrip(FALSE)

\* the block 'Feat: Alert\nPrerequisite: Dex 13, Elf\nx' has been parsed
C24_AlertParsed ==
    /\ parser = "feats"
    /\ parsePc = "done"
    /\ parseInput = <<"F", "e", "a", "t", ":", " ", "A", "l", "e", "r", "t", "\n", "P", "r", "e", "r", "e", "q", "u", "i", "s", "i", "t", "e", ":", " ", "D", "e", "x", " ", "1", "3", ",", " ", "E", "l", "f", "\n", "x">>
    /\ parsed[1].name = <<"A", "l", "e", "r", "t">>
    /\ parsed[1].requirements = <<"D", "e", "x", " ", "1", "3", ",", " ", "E", "l", "f">>

(***************************************************************************)
(* C25: parsePageRange returns null for every empty, blank or malformed    *)
(* string and for every range with start < 1 or end < start; otherwise it  *)
(* returns {start, end} with 1 <= start <= end, and a single page number   *)
(* 'n' gives start = end = n.                                              *)
(***************************************************************************)
\* s is a decimal numeral
C25_Numeral(s) == s # <<>> /\ \A k \in 1..Len(s) : s[k] \in Digits

\* s is white space, or empty
C25_Blank(s) == \A k \in 1..Len(s) : s[k] \in SpaceChars

\* what a well-formed s says: 'n', or 'n-m' with white space about the dash
C25_Readings(s) ==
    {[start |-> NumberValue(s, 10), end |-> NumberValue(s, 10)] : x \in {y \in {0} : C25_Numeral(s)}}
    \cup
    {[start |-> NumberValue(Substring(s, 0, q[1]), 10),
      end |-> NumberValue(Substring(s, q[3], Len(s)), 10)] :
        q \in {p \in (0..Len(s)) \X (0..Len(s)) \X (0..Len(s)) :
                 /\ p[1] <= p[2] /\ p[2] < p[3]
                 /\ C25_Numeral(Substring(s, 0, p[1]))
                 /\ C25_Blank(Substring(s, p[1], p[2]))
                 /\ p[2] < Len(s) /\ At(s, p[2]) = "-"
                 /\ C25_Blank(Substring(s, p[2] + 1, p[3]))
                 /\ C25_Numeral(Substring(s, p[3], Len(s)))}}

C25_PageRangeContract ==
    LET valid == {r \in C25_Readings(pageRangeStr) : 1 <= r.start /\ r.start <= r.end}
    IN  IF valid = {} THEN appPageRange = <<>>
        ELSE /\ appPageRange # <<>>
             /\ appPageRange[1] \in valid
             /\ 1 <= appPageRange[1].start
             /\ appPageRange[1].start <= appPageRange[1].end
             /\ C25_Numeral(pageRangeStr) =>
                    /\ appPageRange[1].start = NumberValue(pageRangeStr, 10)
                    /\ appPageRange[1].end = NumberValue(pageRangeStr, 10)

\* '1 - 2' has been submitted and read as pages 1 to 2
C25_SpacedRangeRead ==
    /\ submissions > 0
    /\ pageRangeStr = <<"1", " ", "-", " ", "2">>
    /\ appPageRange = <<[start |-> 1, end |-> 2]>>

(***************************************************************************)
(* C26: path confinement.  FilePicker.browse, FilePicker.getAbsoluteURL    *)
(* and fetch are reached only with a path that contains no '..' and that   *)
(* is 'data' or begins with 'data/'; a handler that made no such call has  *)
(* returned a failure.                                                     *)
(***************************************************************************)
C26_PathConfinement ==
    /\ \A k \in 1..Len(fsCalls) :
           fsCalls[k].api \in {"FilePicker.browse", "FilePicker.getAbsoluteURL", "fetch"} =>
               /\ ~\E i \in 0..Len(fsCalls[k].path) :
                      MatchesAt(fsCalls[k].path, i, <<".", ".">>)
               /\ \/ fsCalls[k].path = <<"d", "a", "t", "a">>
                  \/ MatchesAt(fsCalls[k].path, 0, <<"d", "a", "t", "a", "/">>)
    /\ (srvPc = "responded" /\ handler \in {"browse", "fetch"} /\ fsCalls = <<>>) =>
           ~response[1].success

(***************************************************************************)
(* C27: a socket request of an unknown or non-GM user is given to no       *)
(* handler: no browse, fetch or extraction is made for it, and the answer  *)
(* is the 'Unauthorized' failure.                                          *)
(***************************************************************************)
C27_OnlyGMDispatched ==
    (request # <<>> /\ request[1].via = "socket" /\ request[1].user # "gm") =>
        /\ handler = "none"
        /\ fsCalls = <<>>
        /\ srvPc = "responded"
        /\ response = <<[success |-> FALSE, error |-> "Unauthorized"]>>

C29_ScanTerminates ==
    /\ [](locator = "creatures" => (lastIndex <= Len(text) /\ Len(blocks) <= lastIndex))
    /\ [][(locator = "creatures" /\ locPc = "scan" /\ locPc' = "scan") =>
              (lastIndex < lastIndex' /\ lastIndex' <= Len(text))]_vars

\* a scan with the pf2e profile has returned with two blocks
C29_ScanReturnedTwo ==
    /\ locator = "creatures"
    /\ profile = "pf2e"
    /\ locPc = "done"
    /\ Len(blocks) = 2

(***************************************************************************)
(* C30: after a submission that succeeded, every entry in the run's Items, *)
(* Spells or Feats folder is in the item pack and every entry in its       *)
(* Races, Traits, Glossary or Adventures folder is in the journal pack,    *)
(* however many of those folders exist.                                    *)
(***************************************************************************)
C30_EveryFolderImported ==
    appPc = "success" =>
        \A c \in DOMAIN imported : \A n \in 1..Len(imported[c]) :
            /\ c \in {"items", "spells", "feats"} =>
                   \E k \in 1..Len(packs["Item"]) : packs["Item"][k] = imported[c][n]
            /\ c \in {"races", "traits", "glossary", "adventures"} =>
                   \E k \in 1..Len(packs["JournalEntry"]) :
                       packs["JournalEntry"][k] = imported[c][n]

====
